---- MODULE Spec2Model ----
(***************************************************************************)
(* Batch conversion of Hasselblad 3FR raw files to OpenEXR.                *)
(*                                                                         *)
(* Two programs share one structure: the general variant                   *)
(* (src/unnamed/part_000, options --linear and --exposure) and the         *)
(* full-sensor variant (src/MAC/FULL_SENSOR/batch_3fr_to_exr.cpp, no       *)
(* options).  The model follows main() step by step and, inside the loop,  *)
(* convert3frToExr() stage by stage.  Strings are sequences of one-        *)
(* character strings, so that the character-level helpers (is3frFile,      *)
(* getBasename, std::stof) are computed as the code computes them.  Floats *)
(* are IEEE 754 binary32 numbers and every float operation rounds as the   *)
(* hardware does; std::pow returns either float next to the exact power.   *)
(* The channels of a pixel are 16-bit floats.  The raw-decode and the      *)
(* EXR-encode libraries are the environment: each call draws its outcome   *)
(* from the outcomes the library can produce.  A second specification,     *)
(* FnSpec, runs the transfer functions alone: the two curves in fixed      *)
(* point, and the normalization and compression stages of the pixel loop   *)
(* on pairs of samples.                                                    *)
(***************************************************************************)
EXTENDS Integers, Sequences, FiniteSets, TLC

VARIABLES
    variant,       \* "general" or "full": which program runs
    argv,          \* the command line, argv[0] first (TLA+ index 1)
    pc,            \* main's position
    exitCode,      \* process status once pc = "exited" (-1 while running)
    exitAt,        \* the return statement of main that ended the run
    inputDir,      \* main's inputDir
    outputDir,     \* main's outputDir
    useSRGB,       \* main's useSRGB
    exposure,      \* main's exposure (binary32)
    dirEntries,    \* entries of the directory "d", in readdir order
    exrKind,       \* what "d/EXR" is: "absent", "dir" or "file"
    exrMade,       \* TRUE once this run's mkdir created "d/EXR"
    outFiles,      \* the files under "d/EXR/": path -> "partial" | "complete"
    threeFrFiles,  \* main's threeFrFiles
    idx,           \* position of the range-for over threeFrFiles (1-based)
    successCount,  \* main's successCount
    failCount,     \* main's failCount
    callLog,       \* the calls of convert3frToExr made so far, with results
    cpc,           \* convert3frToExr's position ("idle" outside a call)
    inputFile,     \* convert's inputPath
    outputFile,    \* convert's outputPath
    trace,         \* library calls and session writes of the current call
    sizes,         \* processor.imgdata.sizes of the current session
    params,        \* the fields of processor.imgdata.params the call has set
    unpackGeom,    \* the geometry in force when unpack() ran
    image,         \* the fetched libraw_processed_image_t (metadata and data)
    fetched,       \* TRUE once dcraw_make_mem_image returned a buffer
    heldBuffers,   \* decoded buffers allocated and not yet released
    releaseCount,  \* dcraw_clear_mem calls made by the current call
    pixels,        \* the Array2D<Rgba> of the current call, row-major
    ret,           \* the current call's return value
    failStage,     \* the stage at which the current call failed, or "none"
    outBefore,     \* outFiles as it was when the current call started
    liveSessions,  \* LibRaw objects constructed and not yet destroyed
    sessionsMade,  \* LibRaw objects constructed so far
    fpc,           \* position of a run of the transfer functions alone
    fin,           \* the input of that run
    fout           \* the values that run has computed

vars == <<variant, argv, pc, exitCode, exitAt, inputDir, outputDir, useSRGB, exposure,
          dirEntries, exrKind, exrMade, outFiles, threeFrFiles, idx,
          successCount, failCount, callLog, cpc, inputFile, outputFile, trace,
          sizes, params, unpackGeom, image, fetched, heldBuffers, releaseCount, pixels,
          ret, failStage, outBefore, liveSessions, sessionsMade, fpc, fin,
          fout>>

fnVars == <<fpc, fin, fout>>

mainVars == <<variant, argv, pc, exitCode, exitAt, inputDir, outputDir,
              useSRGB, exposure, dirEntries, exrKind, exrMade, threeFrFiles, idx,
              successCount, failCount, callLog>>

(***************************************************************************)
(* Bounds of the model.                                                    *)
(***************************************************************************)
MaxEntries == 2     \* entries in the input directory
MaxArgs == 2        \* command-line words after the input directory

(***************************************************************************)
(* The largest samples of a 16-bit and of an 8-bit buffer.                 *)
(***************************************************************************)
Max16 == 65535
Max8 == 255


(***************************************************************************)
(* Characters.                                                             *)
(***************************************************************************)
UpperChars == <<"A", "B", "C", "D", "E", "F", "G", "H", "I", "J", "K", "L", "M",
                "N", "O", "P", "Q", "R", "S", "T", "U", "V", "W", "X", "Y", "Z">>
LowerChars == <<"a", "b", "c", "d", "e", "f", "g", "h", "i", "j", "k", "l", "m",
                "n", "o", "p", "q", "r", "s", "t", "u", "v", "w", "x", "y", "z">>
DigitChars == <<"0", "1", "2", "3", "4", "5", "6", "7", "8", "9">>

\* ::tolower on one character
ToLower(c) ==
    IF \E i \in 1..Len(UpperChars) : UpperChars[i] = c
    THEN LowerChars[CHOOSE i \in 1..Len(UpperChars) : UpperChars[i] = c]
    ELSE c

IsDigit(c) == \E i \in 1..Len(DigitChars) : DigitChars[i] = c

DigitVal(c) == (CHOOSE i \in 1..Len(DigitChars) : DigitChars[i] = c) - 1

\* std::string::substr(pos) and substr(pos, n), pos 0-based
SubstrFrom(s, pos) == SubSeq(s, pos + 1, Len(s))
Substr(s, pos, n) == SubSeq(s, pos + 1, pos + n)

\* find_last_of: the 0-based position of the last character of s that is in
\* chars, or -1 (npos)
FindLastOf(s, chars) ==
    IF \E i \in 1..Len(s) : s[i] \in chars
    THEN (CHOOSE i \in 1..Len(s) :
             /\ s[i] \in chars
             /\ \A j \in (i + 1)..Len(s) : s[j] \notin chars) - 1
    ELSE -1

\* std::string::back() on a non-empty string
Back(s) == s[Len(s)]

\* What back() may yield.  On an empty string the call is undefined: the
\* library reads the byte in front of the buffer, which is whatever the
\* string object holds there ("NUL" stands for any byte that is no
\* separator).
BackValues(s) == IF s = <<>> THEN {"NUL", "/", "\\"} ELSE {Back(s)}

Ext3fr == <<".", "3", "f", "r">>
ExtExr == <<".", "e", "x", "r">>
NameEXR == <<"E", "X", "R">>
Slash == <<"/">>

\* is3frFile without the std::transform to lower case
is3frFileCaseSensitive(filename) ==
    IF Len(filename) < 4 THEN FALSE
    ELSE SubstrFrom(filename, Len(filename) - 4) = Ext3fr

\* is3frFile
is3frFile(filename) ==
    IF Len(filename) < 4 THEN FALSE
    ELSE LET extension == SubstrFrom(filename, Len(filename) - 4)
             lowered == [i \in 1..4 |-> ToLower(extension[i])]
         IN  lowered = Ext3fr

\* getBasename
getBasename(filepath) ==
    LET lastSlash == FindLastOf(filepath, {"/", "\\"})
        lastDot == FindLastOf(filepath, {"."})
        start == IF lastSlash = -1 THEN 0 ELSE lastSlash + 1
        end == IF lastDot = -1 \/ lastDot < start THEN Len(filepath) ELSE lastDot
    IN  Substr(filepath, start, end - start)

(***************************************************************************)
(* IEEE 754 binary32 arithmetic, as the float operations of the code       *)
(* perform it.  A finite number is [k |-> "fin", s, m, e]: sign s (1 for   *)
(* negative) and magnitude m * 2^e, with 2^23 <= m < 2^24 and              *)
(* EMin <= e <= EMax for a normal number, m < 2^23 and e = EMin for a      *)
(* subnormal number and for zero.  The infinities are [k |-> "inf", s],    *)
(* and all NaNs are the one value F32NaN.  Every operation rounds the      *)
(* exact result to the nearest number, ties to the even mantissa.          *)
(***************************************************************************)
P12 == 4096
P23 == 8388608
P24 == 16777216
EMin == -149
EMax == 104

F32Fin(s, m, e) == [k |-> "fin", s |-> s, m |-> m, e |-> e]
F32Inf(s) == [k |-> "inf", s |-> s, m |-> 0, e |-> 0]
F32NaN == [k |-> "nan", s |-> 0, m |-> 0, e |-> 0]
F32SignedZero(s) == F32Fin(s, 0, EMin)
F32Zero == F32SignedZero(0)
F32One == F32Fin(0, P23, -23)

F32IsNaN(a) == a.k = "nan"
F32IsZero(a) == a.k = "fin" /\ a.m = 0

RECURSIVE Pow2(_)
Pow2(n) == IF n = 0 THEN 1 ELSE 2 * Pow2(n - 1)

RECURSIVE BitLen(_)
\* the number of binary digits of n >= 0
BitLen(n) == IF n = 0 THEN 0 ELSE 1 + BitLen(n \div 2)

\* (H + L / 2^24) * 2^E with the two digits moved up by c binary places,
\* for c no more than the leading zeros of H (of H and L when H = 0)
F32ShiftLeft(H, L, sticky, E, c) ==
    IF c <= 24
    THEN [H |-> H * Pow2(c) + L \div Pow2(24 - c),
          L |-> (L % Pow2(24 - c)) * Pow2(c), sticky |-> sticky, E |-> E - c]
    ELSE [H |-> L * Pow2(c - 24), L |-> 0, sticky |-> sticky, E |-> E - c]

\* the same moved down by d binary places, sticky taking what drops out
F32ShiftRight(H, L, sticky, E, d) ==
    IF d <= 24
    THEN [H |-> H \div Pow2(d),
          L |-> (H % Pow2(d)) * Pow2(24 - d) + L \div Pow2(d),
          sticky |-> sticky \/ L % Pow2(d) # 0, E |-> E + d]
    ELSE IF d <= 48
    THEN [H |-> 0, L |-> H \div Pow2(d - 24),
          sticky |-> sticky \/ L # 0 \/ H % Pow2(d - 24) # 0, E |-> E + d]
    ELSE [H |-> 0, L |-> 0, sticky |-> sticky \/ L # 0 \/ H # 0, E |-> E + d]

\* The float nearest to (H + L / 2^24 + t) * 2^E with sign s, for
\* 0 <= H < 2^25, 0 <= L < 2^24, and t a positive amount below 2^-24 when
\* sticky holds, 0 otherwise.
F32Pack(s, H, L, sticky, E) ==
    LET a == IF H >= P24
             THEN [H |-> H \div 2, L |-> (H % 2) * P23 + L \div 2,
                   sticky |-> sticky \/ L % 2 # 0, E |-> E + 1]
             ELSE [H |-> H, L |-> L, sticky |-> sticky, E |-> E]
        zeros == IF a.H > 0 THEN 24 - BitLen(a.H) ELSE 48 - BitLen(a.L)
        room == a.E - EMin
        Carry(r, e) ==
            IF r = P24
            THEN IF e + 1 > EMax THEN F32Inf(s) ELSE F32Fin(s, P23, e + 1)
            ELSE IF e > EMax THEN F32Inf(s)
            ELSE IF r = 0 THEN F32SignedZero(s)
            ELSE F32Fin(s, r, e)
        Round(n) ==
            Carry(IF n.L > P23 \/ (n.L = P23 /\ (n.sticky \/ n.H % 2 = 1))
                  THEN n.H + 1 ELSE n.H, n.E)
    IN  IF H = 0 /\ L = 0 THEN F32SignedZero(s)
        ELSE Round(IF room < 0
                   THEN F32ShiftRight(a.H, a.L, a.sticky, a.E, 0 - room)
                   ELSE F32ShiftLeft(a.H, a.L, a.sticky, a.E,
                                     IF zeros < room THEN zeros ELSE room))

\* (float) n for an integer n
F32OfInt(n) ==
    LET a == IF n < 0 THEN 0 - n ELSE n
    IN  F32Pack(IF n < 0 THEN 1 ELSE 0, a \div 256, (a % 256) * 65536, FALSE, 8)

\* -a
F32Neg(a) == IF a.k = "nan" THEN a ELSE [a EXCEPT !.s = 1 - a.s]

\* a * b
F32Mul(a, b) ==
    LET s == (a.s + b.s) % 2
    IN  IF a.k = "nan" \/ b.k = "nan" THEN F32NaN
        ELSE IF a.k = "inf" \/ b.k = "inf"
             THEN IF F32IsZero(a) \/ F32IsZero(b) THEN F32NaN ELSE F32Inf(s)
        ELSE IF a.m = 0 \/ b.m = 0 THEN F32SignedZero(s)
        ELSE LET a1 == a.m \div P12
                 a0 == a.m % P12
                 b1 == b.m \div P12
                 b0 == b.m % P12
                 mid == a1 * b0 + a0 * b1
                 low == (mid % P12) * P12 + a0 * b0
                 H == a1 * b1 + mid \div P12 + low \div P24
                 L == low % P24
             IN  F32Pack(s, H, L, FALSE, a.e + b.e + 24)

\* a + b for finite a and b other than zero
F32AddFinite(a, b) ==
    LET aBig == a.e > b.e \/ (a.e = b.e /\ a.m >= b.m)
        big == IF aBig THEN a ELSE b
        small == IF aBig THEN b ELSE a
        d == big.e - small.e
        sH == IF d <= 24 THEN small.m \div Pow2(d) ELSE 0
        sL == IF d <= 24 THEN (small.m % Pow2(d)) * Pow2(24 - d)
              ELSE IF d <= 48 THEN small.m \div Pow2(d - 24)
              ELSE 0
        sS == IF d <= 24 THEN FALSE
              ELSE IF d <= 48 THEN small.m % Pow2(d - 24) # 0
              ELSE TRUE
    IN  IF a.s = b.s THEN F32Pack(big.s, big.m + sH, sL, sS, big.e)
        ELSE IF d = 0 /\ big.m = small.m THEN F32Zero
        ELSE LET low == 0 - sL - (IF sS THEN 1 ELSE 0)
                 borrow == IF low < 0 THEN 1 ELSE 0
             IN  F32Pack(big.s, big.m - sH - borrow, low + borrow * P24, sS,
                         big.e)

\* a + b
F32Add(a, b) ==
    IF a.k = "nan" \/ b.k = "nan" THEN F32NaN
    ELSE IF a.k = "inf"
         THEN IF b.k = "inf" /\ b.s # a.s THEN F32NaN ELSE a
    ELSE IF b.k = "inf" THEN b
    ELSE IF a.m = 0 /\ b.m = 0
         THEN F32SignedZero(IF a.s = 1 /\ b.s = 1 THEN 1 ELSE 0)
    ELSE IF a.m = 0 THEN b
    ELSE IF b.m = 0 THEN a
    ELSE F32AddFinite(a, b)

\* m * 2^e with the mantissa brought to 2^23 <= m < 2^24, for 0 < m < 2^24
F32Normalize(m, e) ==
    [m |-> m * Pow2(24 - BitLen(m)), e |-> e - (24 - BitLen(m))]

RECURSIVE F32DivBits(_, _, _, _)
\* n more binary digits of r / b (r < b), appended to the digits acc: the
\* digits and the last remainder
F32DivBits(r, b, n, acc) ==
    IF n = 0 THEN [q |-> acc, r |-> r]
    ELSE IF 2 * r >= b THEN F32DivBits(2 * r - b, b, n - 1, 2 * acc + 1)
         ELSE F32DivBits(2 * r, b, n - 1, 2 * acc)

\* a / b for finite a and b other than zero
F32DivFinite(a, b) ==
    LET s == (a.s + b.s) % 2
        x == F32Normalize(a.m, a.e)
        y == F32Normalize(b.m, b.e)
        d == IF x.m >= y.m THEN F32DivBits(x.m - y.m, y.m, 23, 1)
             ELSE F32DivBits(x.m, y.m, 24, 0)
        E == IF x.m >= y.m THEN x.e - y.e - 23 ELSE x.e - y.e - 24
    IN  F32Pack(s, d.q, IF 2 * d.r >= y.m THEN P23 ELSE 0,
                d.r # 0 /\ 2 * d.r # y.m, E)

\* a / b
F32Div(a, b) ==
    LET s == (a.s + b.s) % 2
    IN  IF a.k = "nan" \/ b.k = "nan" THEN F32NaN
        ELSE IF a.k = "inf"
             THEN IF b.k = "inf" THEN F32NaN ELSE F32Inf(s)
        ELSE IF b.k = "inf" THEN F32SignedZero(s)
        ELSE IF b.m = 0
             THEN IF a.m = 0 THEN F32NaN ELSE F32Inf(s)
        ELSE IF a.m = 0 THEN F32SignedZero(s)
        ELSE F32DivFinite(a, b)

\* |a| < |b| for numbers
F32MagLess(a, b) ==
    IF a.k = "inf" THEN FALSE
    ELSE IF b.k = "inf" THEN TRUE
    ELSE a.e < b.e \/ (a.e = b.e /\ a.m < b.m)

\* a < b
F32Less(a, b) ==
    IF a.k = "nan" \/ b.k = "nan" THEN FALSE
    ELSE IF F32IsZero(a) /\ F32IsZero(b) THEN FALSE
    ELSE IF a.s # b.s THEN a.s = 1
    ELSE IF a.s = 0 THEN F32MagLess(a, b)
    ELSE F32MagLess(b, a)

\* a == b
F32Eq(a, b) ==
    /\ a.k # "nan" /\ b.k # "nan"
    /\ (F32IsZero(a) /\ F32IsZero(b)) \/ a = b

\* a <= b
F32LessEq(a, b) == F32Less(a, b) \/ F32Eq(a, b)

(***************************************************************************)
(* Natural numbers of any size, for the exact conversion of a numeral: a   *)
(* sequence of digits to the base BigBase, the least significant first,    *)
(* without zeros at the end; the empty sequence is 0.                      *)
(***************************************************************************)
BigBase == 100

RECURSIVE BigTrim(_)
BigTrim(a) ==
    IF a # <<>> /\ a[Len(a)] = 0 THEN BigTrim(SubSeq(a, 1, Len(a) - 1)) ELSE a

RECURSIVE BigOfInt(_)
BigOfInt(n) ==
    IF n = 0 THEN <<>> ELSE <<n % BigBase>> \o BigOfInt(n \div BigBase)

RECURSIVE BigMulAddFrom(_, _, _, _)
BigMulAddFrom(a, k, i, carry) ==
    IF i > Len(a) THEN BigOfInt(carry)
    ELSE LET t == a[i] * k + carry
         IN  <<t % BigBase>> \o BigMulAddFrom(a, k, i + 1, t \div BigBase)

\* a * k + c for 0 <= k <= 2^24 and 0 <= c < 2^24
BigMulAdd(a, k, c) == BigTrim(BigMulAddFrom(a, k, 1, c))

BigMul(a, k) == BigMulAdd(a, k, 0)

RECURSIVE BigAddFrom(_, _, _, _)
BigAddFrom(a, b, i, carry) ==
    IF i > Len(a) /\ i > Len(b) THEN BigOfInt(carry)
    ELSE LET t == (IF i <= Len(a) THEN a[i] ELSE 0)
                    + (IF i <= Len(b) THEN b[i] ELSE 0) + carry
         IN  <<t % BigBase>> \o BigAddFrom(a, b, i + 1, t \div BigBase)

\* a + b
BigAdd(a, b) == BigAddFrom(a, b, 1, 0)

RECURSIVE BigCmpFrom(_, _, _)
BigCmpFrom(a, b, i) ==
    IF i = 0 THEN 0
    ELSE IF a[i] < b[i] THEN -1
    ELSE IF a[i] > b[i] THEN 1
    ELSE BigCmpFrom(a, b, i - 1)

\* -1, 0 or 1 as a is below, equal to or above b
BigCmp(a, b) ==
    IF Len(a) < Len(b) THEN -1
    ELSE IF Len(a) > Len(b) THEN 1
    ELSE BigCmpFrom(a, b, Len(a))

RECURSIVE BigZeros(_)
\* n digits 0
BigZeros(n) == IF n = 0 THEN <<>> ELSE <<0>> \o BigZeros(n - 1)

\* a * 10^n for a above 0
BigShift10(a, n) ==
    BigMul(BigZeros(n \div 2) \o a, IF n % 2 = 1 THEN 10 ELSE 1)

RECURSIVE BigOfDecimal(_)
\* the number with the decimal digits ds, the last digit first
BigOfDecimal(ds) ==
    IF ds = <<>> THEN <<>>
    ELSE IF Len(ds) = 1 THEN ds
    ELSE <<ds[1] + 10 * ds[2]>> \o BigOfDecimal(SubSeq(ds, 3, Len(ds)))

P20 == 1048576

RECURSIVE BigScale(_, _, _)
\* N / D * 2^E rewritten with 2^23 <= N / D < 2^24, for N and D above 0
BigScale(N, D, E) ==
    IF BigCmp(N, BigMul(D, P23)) < 0
    THEN IF BigCmp(BigMul(N, P20), BigMul(D, P23)) < 0
         THEN BigScale(BigMul(N, P20), D, E - 20)
         ELSE BigScale(BigMul(N, 2), D, E - 1)
    ELSE IF BigCmp(N, BigMul(D, P24)) >= 0
         THEN IF BigCmp(N, BigMul(BigMul(D, P24), P20)) >= 0
              THEN BigScale(N, BigMul(D, P20), E + 20)
              ELSE BigScale(N, BigMul(D, 2), E + 1)
    ELSE [N |-> N, D |-> D, E |-> E]

RECURSIVE BigQuot(_, _, _, _)
\* floor(N / D) below 2 * bit, found bit by bit on top of acc
BigQuot(N, D, bit, acc) ==
    IF bit = 0 THEN acc
    ELSE IF BigCmp(BigMul(D, acc + bit), N) <= 0
         THEN BigQuot(N, D, bit \div 2, acc + bit)
         ELSE BigQuot(N, D, bit \div 2, acc)

\* strtof's conversion of sign * N / D * 2^E (N, D above 0), as glibc's
\* round_and_return makes it from the first 24 bits of the number, the
\* bit after them and whether a later bit is set: the float, and whether
\* errno is ERANGE (the result overflows, or it is tiny and bits were
\* rounded away).  In the normal range this is rounding to nearest even.
RoundToF32(s, N, D, E) ==
    LET Finish(val, er) == [value |-> val, erange |-> er]
        Normal(val) == Finish(val, val.k = "inf")
        \* round_and_return below the normal range: the mantissa q is moved
        \* down by shift places; the round bit is then the highest bit
        \* moved out of q, the old round bit is not looked at again, and
        \* the result is tiny unless shift is 1 and q, rounded at its own
        \* precision, carried into 2^24
        Subnormal(q, more, shift, carried) ==
            LET half == (q \div Pow2(shift - 1)) % 2 = 1
                rest == more \/ q % Pow2(shift - 1) # 0
                mant == q \div Pow2(shift)
            IN  Finish(F32Fin(s, IF half /\ (rest \/ mant % 2 = 1)
                                 THEN mant + 1 ELSE mant, EMin),
                       ~(shift = 1 /\ carried) /\ (half \/ rest))
        \* q the 24-bit mantissa, round the bit below it, more that a bit
        \* below the round bit is set
        Decide(q, round, more, scE) ==
            IF scE >= EMin
            THEN Normal(F32Pack(s, IF round /\ (more \/ q % 2 = 1)
                                   THEN q + 1 ELSE q, 0, FALSE, scE))
            ELSE IF EMin - scE > 24 THEN Finish(F32SignedZero(s), TRUE)
            ELSE Subnormal(q, more, EMin - scE,
                           round /\ (more \/ q % 2 = 1) /\ q + 1 = P24)
        \* half the comparison of the remainder of the scaled quotient with
        \* 1/2, whole that the remainder is 0
        Bits(q, half, whole, scE) ==
            Decide(q, half >= 0, IF half >= 0 THEN half > 0 ELSE ~whole, scE)
        Compare(sc, q) ==
            Bits(q,
                 BigCmp(BigMul(sc.N, 2),
                        BigAdd(BigMul(BigMul(sc.D, q), 2), sc.D)),
                 BigCmp(sc.N, BigMul(sc.D, q)) = 0, sc.E)
        Divide(sc) == Compare(sc, BigQuot(sc.N, sc.D, P23, 0))
    IN  Divide(BigScale(N, D, E))

(***************************************************************************)
(* std::stof: strtof on the word, with std::invalid_argument when no       *)
(* conversion is possible and std::out_of_range when strtof reports        *)
(* ERANGE; characters after the numeral are ignored.                       *)
(***************************************************************************)
IsSpace(c) == c \in {" ", "\t", "\n", "", "\f", "\r"}

RECURSIVE SkipSpace(_, _)
\* the position of the first character of s from i on that is no white space
SkipSpace(s, i) ==
    IF i <= Len(s) /\ IsSpace(s[i]) THEN SkipSpace(s, i + 1) ELSE i

HexChars == <<"0", "1", "2", "3", "4", "5", "6", "7", "8", "9",
              "a", "b", "c", "d", "e", "f">>

IsHexDigit(c) == \E i \in 1..Len(HexChars) : HexChars[i] = ToLower(c)
HexVal(c) == (CHOOSE i \in 1..Len(HexChars) : HexChars[i] = ToLower(c)) - 1

RECURSIVE DigitRun(_, _)
\* the number of leading digits of s from 1-based position i on
DigitRun(s, i) ==
    IF i > Len(s) \/ ~IsDigit(s[i]) THEN 0 ELSE 1 + DigitRun(s, i + 1)

RECURSIVE HexRun(_, _)
HexRun(s, i) ==
    IF i > Len(s) \/ ~IsHexDigit(s[i]) THEN 0 ELSE 1 + HexRun(s, i + 1)

RECURSIVE ZeroRun(_, _, _)
\* the number of leading "0" among the n characters of s from position i on
ZeroRun(s, i, n) ==
    IF n = 0 \/ s[i] # "0" THEN 0 ELSE 1 + ZeroRun(s, i + 1, n - 1)

RECURSIVE IntOf(_, _, _)
\* the value of the n digits of s that start at position i
IntOf(s, i, n) ==
    IF n = 0 THEN 0 ELSE IntOf(s, i, n - 1) * 10 + DigitVal(s[i + n - 1])

ExpCap == 1000000

\* the value of the n digits of s from position i on, or ExpCap if less
SatInt(s, i, n) ==
    LET z == ZeroRun(s, i, n)
    IN  IF n - z > 6 THEN ExpCap ELSE IntOf(s, i + z, n - z)

\* The exponent part of a numeral at position i, introduced by the letter
\* marker: its value, 0 when there is no well-formed exponent part.
ExpPart(s, i, marker) ==
    IF i <= Len(s) /\ ToLower(s[i]) = marker
    THEN LET signed == i + 1 <= Len(s) /\ s[i + 1] \in {"-", "+"}
             first == IF signed THEN i + 2 ELSE i + 1
             n == DigitRun(s, first)
             mag == SatInt(s, first, n)
         IN  IF n = 0 THEN 0
             ELSE IF signed /\ s[i + 1] = "-" THEN 0 - mag ELSE mag
    ELSE 0

\* the word has the letters of lit, in either case, from position i on
MatchesAt(s, i, lit) ==
    /\ i + Len(lit) - 1 <= Len(s)
    /\ \A j \in 1..Len(lit) : ToLower(s[i + j - 1]) = lit[j]

RECURSIVE DigitsOf(_, _, _)
\* the values of the n decimal or hexadecimal digits of s from position i
\* on, the first digit first
DigitsOf(s, i, n) ==
    IF n = 0 THEN <<>> ELSE <<HexVal(s[i])>> \o DigitsOf(s, i + 1, n - 1)

RECURSIVE Reverse(_)
Reverse(ds) == IF ds = <<>> THEN <<>> ELSE Reverse(Tail(ds)) \o <<Head(ds)>>

RECURSIVE BigOfDigits(_, _, _)
\* the number written by the digits ds in the given base, on top of acc
BigOfDigits(ds, base, acc) ==
    IF ds = <<>> THEN acc
    ELSE BigOfDigits(Tail(ds), base, BigMulAdd(acc, base, Head(ds)))

StofOk(v) == [status |-> "ok", value |-> v]
StofRange == [status |-> "out_of_range", value |-> F32Zero]
StofInvalid == [status |-> "invalid_argument", value |-> F32Zero]

StofRounded(r) == IF r.erange THEN StofRange ELSE StofOk(r.value)

\* a hexadecimal numeral: the digits start at position i (after 0x)
StofHex(s, sgn, i) ==
    LET nInt == HexRun(s, i)
        hasDot == i + nInt <= Len(s) /\ s[i + nInt] = "."
        fracAt == i + nInt + 1
        nFrac == IF hasDot THEN HexRun(s, fracAt) ELSE 0
        expAt == IF hasDot THEN fracAt + nFrac ELSE i + nInt
        p == ExpPart(s, expAt, "p")
        N == BigOfDigits(DigitsOf(s, i, nInt) \o DigitsOf(s, fracAt, nFrac),
                         16, <<>>)
        E == p - 4 * nFrac
        bits == 7 * Len(N)      \* N < 100^Len(N) < 2^bits
    IN  IF N = <<>> THEN StofOk(F32SignedZero(sgn))
        ELSE IF E >= 128 \/ bits + E <= -150 THEN StofRange
        ELSE StofRounded(RoundToF32(sgn, N, <<1>>, E))

\* a decimal numeral: the digits start at position i
StofDec(s, sgn, i) ==
    LET nInt == DigitRun(s, i)
        hasDot == i + nInt <= Len(s) /\ s[i + nInt] = "."
        fracAt == i + nInt + 1
        nFrac == IF hasDot THEN DigitRun(s, fracAt) ELSE 0
        expAt == IF hasDot THEN fracAt + nFrac ELSE i + nInt
        x == ExpPart(s, expAt, "e")
        ds == DigitsOf(s, i, nInt) \o DigitsOf(s, fracAt, nFrac)
        nz == Len(ds) - ZeroRun(s, i, nInt)
                 - (IF ZeroRun(s, i, nInt) = nInt
                    THEN ZeroRun(s, fracAt, nFrac) ELSE 0)
        I == BigTrim(BigOfDecimal(Reverse(ds)))
        k == x - nFrac
        mag == nz + k           \* 10^(mag - 1) <= I * 10^k < 10^mag
    IN  IF nInt + nFrac = 0 THEN StofInvalid
        ELSE IF I = <<>> THEN StofOk(F32SignedZero(sgn))
        ELSE IF mag >= 40 \/ mag <= -46 THEN StofRange
        ELSE IF k >= 0
             THEN StofRounded(RoundToF32(sgn, BigShift10(I, k), <<1>>, 0))
             ELSE StofRounded(RoundToF32(sgn, I, BigShift10(<<1>>, 0 - k), 0))

Stof(word) ==
    LET start == SkipSpace(word, 1)
        signed == start <= Len(word) /\ word[start] \in {"-", "+"}
        sgn == IF signed /\ word[start] = "-" THEN 1 ELSE 0
        i == IF signed THEN start + 1 ELSE start
        isHex == /\ MatchesAt(word, i, <<"0", "x">>)
                 /\ \/ HexRun(word, i + 2) > 0
                    \/ (MatchesAt(word, i + 2, <<".">>) /\ HexRun(word, i + 3) > 0)
    IN  IF MatchesAt(word, i, <<"i", "n", "f">>) THEN StofOk(F32Inf(sgn))
        ELSE IF MatchesAt(word, i, <<"n", "a", "n">>) THEN StofOk(F32NaN)
        ELSE IF isHex THEN StofHex(word, sgn, i + 2)
        ELSE StofDec(word, sgn, i)

(***************************************************************************)
(* main: the command line.                                                 *)
(***************************************************************************)
OptLinear == <<"-", "-", "l", "i", "n", "e", "a", "r">>
OptExposure == <<"-", "-", "e", "x", "p", "o", "s", "u", "r", "e">>

\* argc, and argv[i] with the code's 0-based index
Argc(av) == Len(av)
Arg(av, i) == av[i + 1]

RECURSIVE ParseOptions(_, _, _)
\* The general variant's option loop from index i on, st the options so far.
\* status: "ok", "usage" (the code prints an error and returns 1) or "throw"
\* (std::stof throws std::invalid_argument or std::out_of_range and nothing
\* catches: std::terminate).
ParseOptions(av, i, st) ==
    IF i >= Argc(av) THEN st
    ELSE IF Arg(av, i) = OptLinear
         THEN ParseOptions(av, i + 1, [st EXCEPT !.useSRGB = FALSE])
    ELSE IF Arg(av, i) = OptExposure
         THEN IF i + 1 < Argc(av)
              THEN LET Assign(f) ==
                           IF f.status = "ok"
                           THEN ParseOptions(av, i + 2,
                                    [st EXCEPT !.exposure = f.value])
                           ELSE [st EXCEPT !.status = "throw"]
                   IN  Assign(Stof(Arg(av, i + 1)))
              ELSE [st EXCEPT !.status = "usage"]
    ELSE ParseOptions(av, i + 1, st)

\* The whole argument handling of main: the argc test, then the options.
ParseArgs(v, av) ==
    LET defaults == [status |-> "ok", useSRGB |-> TRUE, exposure |-> F32One]
    IN  IF v = "general"
        THEN IF Argc(av) < 2 THEN [defaults EXCEPT !.status = "usage"]
             ELSE ParseOptions(av, 2, defaults)
        ELSE IF Argc(av) # 2 THEN [defaults EXCEPT !.status = "usage"]
             ELSE defaults

\* inputDir with the trailing separator main adds
WithSlash(path) ==
    IF Back(path) # "/" /\ Back(path) # "\\" THEN path \o Slash ELSE path

(***************************************************************************)
(* The file system.  "d" and the root "/" are directories, "f" a regular   *)
(* file, anything else does not exist; the EXR entry of the directory the  *)
(* run works in ("d/EXR" or "/EXR") is what exrKind says.                  *)
(***************************************************************************)
DirD == <<"d">>
FileF == <<"f">>
NoneX == <<"x">>
PathEXR == <<"d", "/", "E", "X", "R">>
RootEXR == <<"/", "E", "X", "R">>

\* stat(): the kind of a path, "absent" when stat fails; a path that ends
\* with a separator names a directory or nothing (ENOTDIR on a file)
StatKind(path, exr) ==
    IF path \in {DirD, DirD \o Slash, Slash} THEN "dir"
    ELSE IF path = FileF THEN "file"
    ELSE IF path \in {PathEXR, RootEXR} THEN exr
    ELSE IF path \in {PathEXR \o Slash, RootEXR \o Slash}
         THEN IF exr = "dir" THEN "dir" ELSE "absent"
    ELSE "absent"

\* directoryExists
directoryExists(path, exr) == StatKind(path, exr) = "dir"

\* What readdir yields: the directory's entries, and EXR when it exists.
Listing(entries, exr) ==
    entries \o (IF exr = "absent" THEN <<>>
                ELSE <<[name |-> NameEXR,
                        type |-> IF exr = "dir" THEN "DT_DIR" ELSE "DT_REG"]>>)

RECURSIVE DiscoverAnyType(_, _, _)
\* A readdir loop that does not look at d_type.
DiscoverAnyType(dir, listing, i) ==
    IF i > Len(listing) THEN <<>>
    ELSE (IF is3frFile(listing[i].name)
          THEN <<dir \o listing[i].name>> ELSE <<>>)
         \o DiscoverAnyType(dir, listing, i + 1)

RECURSIVE Discover(_, _, _)
\* main's readdir loop over listing from position i on
Discover(dir, listing, i) ==
    IF i > Len(listing) THEN <<>>
    ELSE (IF /\ listing[i].type \in {"DT_REG", "DT_UNKNOWN"}
             /\ is3frFile(listing[i].name)
          THEN <<dir \o listing[i].name>> ELSE <<>>)
         \o Discover(dir, listing, i + 1)

\* the loop's output path for one input file
OutputPathOf(outDir, inFile) == outDir \o getBasename(inFile) \o ExtExr

\* the range-for is over once every element was visited
LoopDone(st) == st.idx > st.n

\* A loop body that leaves the loop at the first failed conversion.
LoopStepBreak(st, ok) ==
    [st EXCEPT !.idx = IF ok THEN @ + 1 ELSE st.n + 1,
               !.success = IF ok THEN @ + 1 ELSE @,
               !.fail = IF ok THEN @ ELSE @ + 1]

\* One pass of the loop body once convert3frToExr returned ok: the counter
\* that is incremented, and the iterator's advance.
LoopStep(st, ok) ==
    [st EXCEPT !.idx = @ + 1,
               !.success = IF ok THEN @ + 1 ELSE @,
               !.fail = IF ok THEN @ ELSE @ + 1]

\* A return value that tolerates one failure.
ExitStatusLenient(fails) == IF fails > 1 THEN 1 ELSE 0

\* main's final return value
ExitStatus(fails) == IF fails > 0 THEN 1 ELSE 0

\* A createDirectory that takes every failure of mkdir as fatal.
createDirectoryStrict(path, exr, denied) ==
    LET entry == IF Len(path) > 1 /\ path[Len(path)] = "/"
                 THEN SubSeq(path, 1, Len(path) - 1) ELSE path
        mkdirOk == StatKind(entry, exr) = "absent" /\ ~denied
    IN  [ok |-> mkdirOk, made |-> mkdirOk]

\* createDirectory: mkdir succeeds on an absent path unless the system
\* denies it (EACCES and the like); on an existing path it fails with
\* EEXIST, which the code accepts.  mkdir looks at the entry the path
\* names without a separator at its end: it reports EEXIST for a file
\* named with one after it too.
createDirectory(path, exr, denied) ==
    LET entry == IF Len(path) > 1 /\ path[Len(path)] = "/"
                 THEN SubSeq(path, 1, Len(path) - 1) ELSE path
        kind == StatKind(entry, exr)
        mkdirOk == kind = "absent" /\ ~denied
        eexist == kind # "absent"
    IN  [ok |-> mkdirOk \/ eexist, made |-> mkdirOk]

(***************************************************************************)
(* The transfer functions at a finer resolution: fixed point of HiScale    *)
(* units per 1.0, every operation truncating to a unit.  A product is      *)
(* formed from the halves of its factors, a quotient digit by digit, so    *)
(* that no intermediate value leaves the 32-bit integers.                  *)
(***************************************************************************)
HiScale == 100000000

HiBase == 10000

\* floor(a * b / HiScale) for 0 <= a, b <= 2 * HiScale
HiMul(a, b) ==
    LET a1 == a \div HiBase
        a0 == a % HiBase
        b1 == b \div HiBase
        b0 == b % HiBase
        mid == a1 * b0 + a0 * b1
        low == a0 * b0
    IN  a1 * b1 + (mid + low \div HiBase) \div HiBase

RECURSIVE HiDivFrom(_, _, _, _)
\* n more decimal digits of r / b (r < b), appended to the digits acc
HiDivFrom(r, b, n, acc) ==
    IF n = 0 THEN acc
    ELSE HiDivFrom((r * 10) % b, b, n - 1, acc * 10 + (r * 10) \div b)

\* floor(a * HiScale / b) for 0 <= a < 2 * b, b <= 2 * HiScale
HiDiv(a, b) == HiDivFrom(a % b, b, 8, a \div b)

RECURSIVE HiPow(_, _)
\* r^k, k >= 1
HiPow(r, k) == IF k = 1 THEN r ELSE HiMul(HiPow(r, k - 1), r)

RECURSIVE HiRootSearch(_, _, _, _)
\* the largest r in lo..hi with r^k <= q (lo is known to be one)
HiRootSearch(q, k, lo, hi) ==
    IF lo >= hi THEN lo
    ELSE LET mid == (lo + hi + 1) \div 2
         IN  IF HiPow(mid, k) <= q THEN HiRootSearch(q, k, mid, hi)
             ELSE HiRootSearch(q, k, lo, mid - 1)

\* q^(1/k) for q in [0, 1]
HiRoot(q, k) == HiRootSearch(q, k, 0, HiScale)

\* std::pow(x, 2.4f) for x in [0, 1]: x^2 * (x^2)^(1/5)
HiPow24(x) == HiMul(HiMul(x, x), HiRoot(HiMul(x, x), 5))

\* std::pow(x, 1.0f / 2.4f) for x in [0, 1]: x^(5/12) = x^(1/4) * x^(1/6)
HiPowInv24(x) ==
    LET s == HiRoot(x, 2)
    IN  HiMul(HiRoot(s, 2), HiRoot(s, 3))

HiClamp01(x) == IF x < 0 THEN 0 ELSE IF x > HiScale THEN HiScale ELSE x

\* applySRGBCurve: 0.0031308f is 313080 units, 12.92f is 1292/100,
\* 1.055f is 105500000 units, 0.055f is 5500000 units
applySRGBCurve(linear) ==
    LET c == HiClamp01(linear)
    IN  IF c <= 313080 THEN (c * 1292) \div 100
        ELSE HiMul(105500000, HiPowInv24(c)) - 5500000

\* An inverse curve whose knee is misplaced at 0.004045.
applySRGBInverseKneeTypo(srgb) ==
    LET c == HiClamp01(srgb)
    IN  IF c <= 404500 THEN (c * 100) \div 1292
        ELSE HiPow24(HiDiv(c + 5500000, 105500000))

\* applySRGBInverse at the finer resolution: 0.04045f is 4045000 units
applySRGBInverseHi(srgb) ==
    LET c == HiClamp01(srgb)
    IN  IF c <= 4045000 THEN (c * 100) \div 1292
        ELSE HiPow24(HiDiv(c + 5500000, 105500000))

(***************************************************************************)
(* The transfer functions of the general variant and the pixel loop, in    *)
(* binary32 arithmetic.  The constants are the floats the compiler makes   *)
(* of the literals.  The accuracy of std::pow is the library's: the model  *)
(* computes the power to sixteen decimal places and lets std::pow return   *)
(* either of the two floats the power lies between, so a function that     *)
(* goes through std::pow has a set of possible results.                    *)
(***************************************************************************)
F32Max16 == F32OfInt(Max16)                 \* 65535.0f
F32Max8 == F32OfInt(Max8)                   \* 255.0f
F32InverseKnee == F32Fin(0, 10858214, -28)  \* 0.04045f
F32Slope == F32Fin(0, 13547602, -20)        \* 12.92f
F32Offset == F32Fin(0, 14763950, -28)       \* 0.055f
F32Gain == F32Fin(0, 8849981, -23)          \* 1.055f

\* std::min(a, b) and std::max(a, b) on floats: the first argument unless
\* the comparison picks the second, so a NaN in b is never returned
F32Min(a, b) == IF F32Less(b, a) THEN b ELSE a
F32Max(a, b) == IF F32Less(a, b) THEN b ELSE a

\* std::max(0.0f, std::min(1.0f, x))
Clamp01(x) == F32Max(F32Zero, F32Min(F32One, x))

\* floor(x * HiScale) for a float x in (0, 1]: HiScale is 2^8 * 390625
F32ToHi(x) ==
    LET hi == (x.m \div P12) * 390625
        lo == ((x.m % P12) * 390625) \div P12
    IN  (hi + lo) \div Pow2(0 - x.e - 20)

RECURSIVE FxCarry(_, _, _)
\* A decimal fixed-point number is a tuple of five digits: the whole part,
\* then four digits of base HiBase after the point.  FxCarry brings the
\* digits i down to 2 of cols into 0..HiBase-1, adding what each leaves
\* over (c for digit i) to the digit before; the whole part takes the last.
FxCarry(cols, i, c) ==
    IF i = 1 THEN [cols EXCEPT ![1] = cols[1] + c]
    ELSE FxCarry([cols EXCEPT ![i] = (cols[i] + c) % HiBase], i - 1,
                 (cols[i] + c) \div HiBase)

\* a * b cut after the fourth digit, for whole parts below 10
FxMul(a, b) ==
    SubSeq(FxCarry(<<a[1] * b[1],
                     a[1] * b[2] + a[2] * b[1],
                     a[1] * b[3] + a[2] * b[2] + a[3] * b[1],
                     a[1] * b[4] + a[2] * b[3] + a[3] * b[2] + a[4] * b[1],
                     a[1] * b[5] + a[2] * b[4] + a[3] * b[3] + a[4] * b[2]
                         + a[5] * b[1],
                     a[2] * b[5] + a[3] * b[4] + a[4] * b[3] + a[5] * b[2]>>,
                   6, 0), 1, 5)

RECURSIVE FxDivFrom(_, _, _, _)
\* the digits of a from the i-th on divided by d (at most 2^15), r being
\* the remainder of the digits before
FxDivFrom(a, d, i, r) ==
    IF i > Len(a) THEN <<>>
    ELSE <<(r * HiBase + a[i]) \div d>>
             \o FxDivFrom(a, d, i + 1, (r * HiBase + a[i]) % d)

\* std::pow(x, 2.4f) for a float x with 1/16 <= x <= 1, the bases
\* applySRGBInverse forms: the floats the library may return.  2.4f is
\* 12/5 + 1/(5 * 2^21), so the power is x^3 * y^3 * x^(1/(5 * 2^21)) with
\* y = x^(-1/5); y comes from one Newton step on the reciprocal of
\* HiRoot's fifth root, and the last factor is 1 - ln(1/r) / 2^21 with
\* r = x^(1/5) and ln(1/r) = 2 (w + w^3/3 + ...), w = (1 - r) / (1 + r).
\* The result is within 10^-12 of the power, relatively; std::pow returns
\* a float next to the power on either side, and 1 for pow(1, y).
Pow24(x) ==
    LET Fx(h) == <<h \div HiScale, (h % HiScale) \div HiBase, h % HiBase, 0, 0>>
        From(n, a) ==
            FxCarry(<<n - a[1], 0 - a[2], 0 - a[3], 0 - a[4], 0 - a[5]>>, 5, 0)
        Times(a, k) ==
            FxCarry(<<a[1] * k, a[2] * k, a[3] * k, a[4] * k, a[5] * k>>, 5, 0)
        Cube(a) == FxMul(FxMul(a, a), a)
        Fifth(a, a2) == FxMul(FxMul(a2, a2), a)
        Newton(xf, y) ==
            FxDivFrom(FxMul(y, From(6, FxMul(xf, Fifth(y, FxMul(y, y))))),
                      5, 1, 0)
        Series(w, w2) ==
            w + HiMul(w, w2) \div 3 + HiMul(HiMul(w, w2), w2) \div 5
              + HiMul(HiMul(HiMul(w, w2), w2), w2) \div 7
              + HiMul(HiMul(HiMul(HiMul(w, w2), w2), w2), w2) \div 9
        Log(w) == Series(w, HiMul(w, w))
        Last(r) ==
            From(1, FxDivFrom(FxDivFrom(Fx(Log(HiDiv(HiScale - r, HiScale + r))),
                                        1024, 1, 0), 1024, 1, 0))
        \* t is the power times 2^-e, its whole part q of 24 bits: the
        \* floats q and q + 1 times 2^e, and a third where the power is
        \* within 10^-4 of one of them
        Near(t, e) ==
            {F32Pack(0, q, 0, FALSE, e) :
                q \in (IF t[2] = 0 THEN {t[1] - 1} ELSE {})
                        \cup {t[1], t[1] + 1}
                        \cup (IF t[2] = HiBase - 1 THEN {t[1] + 2} ELSE {})}
        Scale(s) == Near(Times(s, Pow2(24 - BitLen(s[1]))), BitLen(s[1]) - 48)
        Floats(p) == Scale(Times(Times(p, 4096), 4096))
        Power(xf, y, r) ==
            UNION {Floats(p) : p \in {FxMul(FxMul(Cube(xf), Cube(y)), Last(r))}}
        Root(xf, r) ==
            UNION {Power(xf, y, r) : y \in {Newton(xf, Fx(HiDiv(HiScale, r)))}}
    IN  IF x = F32One THEN {F32One}
        ELSE UNION {Root(xf, r) :
                       xf \in {FxDivFrom(FxDivFrom(<<x.m, 0, 0, 0, 0>>,
                                                   16384, 1, 0),
                                         Pow2(0 - x.e - 14), 1, 0)},
                       r \in {HiRoot(F32ToHi(x), 5)}}

\* applySRGBInverse: the values it may return, one below the knee
applySRGBInverse(srgb) ==
    LET c == Clamp01(srgb)
    IN  IF F32LessEq(c, F32InverseKnee) THEN {F32Div(c, F32Slope)}
        ELSE Pow24(F32Div(F32Add(c, F32Offset), F32Gain))

\* simpleToneMap: linear *= exposure; return linear / (1.0f + linear)
simpleToneMap(linear, exp) ==
    LET l == F32Mul(linear, exp)
    IN  F32Div(l, F32Add(F32One, l))

\* data[idx] / 65535.0f or data[idx] / 255.0f
Normalize(sample, bits) ==
    F32Div(F32OfInt(sample), IF bits = 16 THEN F32Max16 ELSE F32Max8)

\* The stages in the other order: compression first, linearization after.
TransferCompressFirst(v, srgb, exp) ==
    LET Linearize(tm) == IF srgb THEN applySRGBInverse(tm) ELSE {tm}
    IN  Linearize(IF ~F32Eq(exp, F32One) THEN simpleToneMap(v, exp) ELSE v)

\* The per-channel stages of the general variant after normalization:
\* if (useSRGB) applySRGBInverse, if (exposure != 1.0f) simpleToneMap.
\* The values the channel may get.
Transfer(v, srgb, exp) ==
    LET Compress(lin) ==
            IF ~F32Eq(exp, F32One) THEN simpleToneMap(lin, exp) ELSE lin
    IN  {Compress(lin) : lin \in (IF srgb THEN applySRGBInverse(v) ELSE {v})}

(***************************************************************************)
(* The channels of an Rgba are 16-bit floats (half): a finite one is       *)
(* [k |-> "fin", s, m, e] with value m * 2^e, 2^10 <= m < 2^11 and         *)
(* HalfEMin <= e <= HalfEMax when normal, m < 2^10 and e = HalfEMin when   *)
(* subnormal or zero.  The assignment of a float rounds to the nearest     *)
(* half, ties to the even mantissa, and overflows to infinity.             *)
(***************************************************************************)
P10 == 1024
P11 == 2048
HalfEMin == -24
HalfEMax == 5

HalfOf(x) ==
    LET Carry(r, t) ==
            IF r = P11
            THEN IF t + 1 > HalfEMax THEN F32Inf(x.s) ELSE F32Fin(x.s, P10, t + 1)
            ELSE IF t > HalfEMax THEN F32Inf(x.s)
            ELSE IF r = 0 THEN F32Fin(x.s, 0, HalfEMin)
            ELSE F32Fin(x.s, r, t)
        Round(q, rest, half, t) ==
            Carry(IF rest > half \/ (rest = half /\ q % 2 = 1) THEN q + 1 ELSE q,
                  t)
        Drop(d, t) ==
            IF d > 25 THEN Carry(0, t)
            ELSE Round(x.m \div Pow2(d), x.m % Pow2(d), Pow2(d - 1), t)
        Place(t) == Drop(t - x.e, t)
    IN  IF x.k # "fin" THEN x
        ELSE Place(IF x.e + 13 > HalfEMin THEN x.e + 13 ELSE HalfEMin)

HalfOne == HalfOf(F32One)

(***************************************************************************)
(* convert3frToExr.                                                        *)
(***************************************************************************)
\* An order that opens the output file before the raw file is decoded.
StageOrderOutputFirst(v) ==
    IF v = "general"
    THEN <<"open", "ctor", "unpack", "geometry", "params", "process", "fetch",
           "pixels", "write">>
    ELSE <<"open", "ctor", "params", "geometry", "unpack", "process", "fetch",
           "pixels", "write">>

\* An order that applies the geometry override after the processing stage.
StageOrderGeometryLate(v) ==
    IF v = "general"
    THEN <<"open", "unpack", "params", "process", "geometry", "fetch",
           "ctor", "pixels", "write">>
    ELSE <<"open", "params", "unpack", "process", "geometry", "fetch",
           "ctor", "pixels", "write">>

\* The order of the stages of one call, per variant.
StageOrder(v) ==
    IF v = "general"
    THEN <<"open", "unpack", "geometry", "params", "process", "fetch",
           "ctor", "pixels", "write">>
    ELSE <<"open", "params", "geometry", "unpack", "process", "fetch",
           "ctor", "pixels", "write">>

\* the stage that follows stage s
NextStage(v, s) ==
    LET order == StageOrder(v)
        at == CHOOSE i \in 1..Len(order) : order[i] = s
    IN  IF at < Len(order) THEN order[at + 1] ELSE "returned"

\* The LibRaw objects a stage constructs: "LibRaw processor;" is the first
\* statement of the call, modelled with the open stage.
Constructed(stage) == IF stage = "open" THEN 1 ELSE 0

\* The LibRaw objects destroyed by a return of the call: processor is a
\* local of automatic storage, so its destructor runs on every return.
DestroyedAtReturn == 1

\* The sensor-geometry override: the writes to imgdata.sizes.
GeometryOverride(s) ==
    [s EXCEPT !.width = s.raw_width, !.height = s.raw_height,
              !.top_margin = 0, !.left_margin = 0,
              !.iwidth = s.raw_width, !.iheight = s.raw_height]

\* The writes to imgdata.params.
ConfigOf(v) ==
    IF v = "general"
    THEN [set |-> TRUE, use_auto_wb |-> 0, use_camera_wb |-> 1,
          no_auto_bright |-> 1, output_color |-> 1, output_bps |-> 16,
          user_flip |-> 0, user_qual |-> 3, four_color_rgb |-> 0,
          highlight |-> 0, use_fuji_rotate |-> 0]
    ELSE [set |-> TRUE, use_camera_wb |-> 1, output_color |-> 1,
          output_bps |-> 16, no_auto_bright |-> 1,
          gamm |-> <<F32One, F32One>>, bright |-> F32One, user_qual |-> 3]

\* A catch handler that returns without releasing the buffer.
ReleaseCallsLeakInCatch(v, stage) ==
    IF stage \in {"pixels", "none"} THEN 1 ELSE 0

\* The number of dcraw_clear_mem calls on the exit path taken: stage is where
\* the call failed, "none" on success.  The paths before the fetch release
\* nothing; the rejected format, the catch handler and the success path
\* release once each.
ReleaseCalls(v, stage) ==
    IF stage \in {"ctor", "pixels", "write", "none"} THEN 1 ELSE 0

\* The buffer formats the pixel loop accepts.
FormatAccepted(v, img) ==
    IF v = "general" THEN TRUE
    ELSE img.colors = 3 /\ img.bits \in {8, 16}

\* The 16-bit floats a channel may get from a sample of the buffer: the
\* float the loop computes, which the assignment to the channel rounds to
\* a 16-bit float.
ChannelOf(v, img, sample, srgb, exp) ==
    IF v = "general"
    THEN {HalfOf(t) : t \in Transfer(Normalize(sample, img.bits), srgb, exp)}
    ELSE {HalfOf(Normalize(sample, img.bits))}

RECURSIVE Tables(_)
\* The functions that pick, for every sample of the domain of cand, one of
\* the values cand gives it: within a run the same sample gets the same
\* value, std::pow being a function.
Tables(cand) ==
    IF DOMAIN cand = {} THEN {<<>>}
    ELSE LET s == CHOOSE u \in DOMAIN cand : TRUE
             rest == Tables([u \in DOMAIN cand \ {s} |-> cand[u]])
         IN  {(s :> h) @@ g : h \in cand[s], g \in rest}

\* The Rgba written for the 0-based pixel i of the buffer, val giving the
\* channel value of every sample.
PixelOf(v, img, i, val) ==
    LET at == i * img.colors
        ch(k) == val[img.data[at + k + 1]]
    IN  IF v = "general" /\ img.colors < 3
        THEN [r |-> ch(0), g |-> ch(0), b |-> ch(0), a |-> HalfOne]
        ELSE [r |-> ch(0), g |-> ch(1), b |-> ch(2), a |-> HalfOne]

\* The whole pixel array, row-major: the arrays the loop may fill.
FillPixels(v, img, srgb, exp) ==
    LET count == img.width * img.height
        read == {img.data[(p - 1) * img.colors + k] :
                    p \in 1..count,
                    k \in 1..(IF img.colors >= 3 THEN 3 ELSE 1)}
    IN  {[p \in 1..count |-> PixelOf(v, img, p - 1, val)] :
            val \in Tables([s \in read |-> ChannelOf(v, img, s, srgb, exp)])}

\* RgbaOutputFile's constructor on path: "ok" creates or truncates the file
\* and writes the header; "headerfail" throws after creating it; "openfail"
\* throws without touching it.
CtorEffect(files, path, outcome) ==
    IF outcome = "openfail" THEN files
    ELSE (path :> "partial") @@ files

\* writePixels and the close of the file at the end of the try block
WriteEffect(files, path, ok) ==
    IF ok THEN (path :> "complete") @@ files ELSE files

(***************************************************************************)
(* The inputs.                                                             *)
(***************************************************************************)
ProgName == <<"p">>

SeqsUpTo(S, n) == UNION {[1..k -> S] : k \in 0..n}

Injective(f) == \A i, j \in DOMAIN f : f[i] = f[j] => i = j

EntryPool ==
    { [name |-> <<"a", ".", "3", "f", "r">>, type |-> "DT_REG"],
      [name |-> <<"a", ".", "3", "F", "R">>, type |-> "DT_UNKNOWN"],
      [name |-> <<"b", ".", "3", "F", "r">>, type |-> "DT_REG"],
      [name |-> <<"c", ".", "3", "f", "r">>, type |-> "DT_DIR"],
      [name |-> <<"n", ".", "t", "x", "t">>, type |-> "DT_REG"] }

Directories == {d \in SeqsUpTo(EntryPool, MaxEntries) : Injective(d)}

\* Entries with unusual names and types: a backslash and a second dot in
\* the name, a name that is the extension alone, names too short or without
\* the dot, a symbolic link.
OddPool ==
    { [name |-> <<"a", "\\", "b", ".", "3", "f", "r">>, type |-> "DT_REG"],
      [name |-> <<"a", ".", "b", ".", "3", "F", "R">>, type |-> "DT_REG"],
      [name |-> <<".", "3", "f", "r">>, type |-> "DT_UNKNOWN"],
      [name |-> <<"3", "f", "r">>, type |-> "DT_REG"],
      [name |-> <<"a", "3", "f", "r">>, type |-> "DT_REG"],
      [name |-> <<"l", ".", "3", "f", "r">>, type |-> "DT_LNK"] }

\* The words of a command line: the two options, an unknown option, and
\* words for --exposure: 2, -1, a word out of the range of float and a word
\* that is no number.
WordPool ==
    {OptLinear, OptExposure, <<"-", "-", "b">>,
     <<"2">>, <<"-", "1">>, <<"1", "e", "4", "0">>, <<"x">>}

StaleOutput == PathEXR \o Slash \o <<"a">> \o ExtExr

\* The sensors of the files: raw size 2x2, the visible area all of it or
\* the 1x1 inside the margins.
SensorPool ==
    { [raw_width |-> 2, raw_height |-> 2, width |-> 2, height |-> 2,
       top_margin |-> 0, left_margin |-> 0, iwidth |-> 2, iheight |-> 2],
      [raw_width |-> 2, raw_height |-> 2, width |-> 1, height |-> 1,
       top_margin |-> 1, left_margin |-> 1, iwidth |-> 1, iheight |-> 1] }

\* The samples of the buffers: none, full scale, one below the knee of the
\* inverse curve and one above it; for 3239 the 16-bit float stored depends
\* on which of the two floats next to the power std::pow returns.
Palette16 == <<0, 65535, 2650, 3239>>
Palette8 == <<0, 255, 10, 128>>

\* the n samples of a buffer
SampleData(bits, n) ==
    [i \in 1..n |-> IF bits = 16 THEN Palette16[((i - 1) % 4) + 1]
                    ELSE Palette8[((i - 1) % 4) + 1]]

NoSizes == [raw_width |-> 0, raw_height |-> 0, width |-> 0, height |-> 0,
            top_margin |-> 0, left_margin |-> 0, iwidth |-> 0, iheight |-> 0]
NoParams == [set |-> FALSE]
NoGeom == [width |-> 0, height |-> 0]
NoImage == [width |-> 0, height |-> 0, colors |-> 0, bits |-> 0, data |-> <<>>]
NoFiles == <<>>

\* the locals of convert3frToExr outside a call
CallIdle ==
    /\ cpc = "idle" /\ inputFile = <<>> /\ outputFile = <<>> /\ trace = <<>>
    /\ sizes = NoSizes /\ params = NoParams /\ unpackGeom = NoGeom
    /\ image = NoImage
    /\ fetched = FALSE /\ releaseCount = 0 /\ pixels = <<>> /\ ret = FALSE
    /\ failStage = "none" /\ outBefore = NoFiles

InitCommon ==
    /\ variant \in {"general", "full"}
    /\ pc = "start" /\ exitCode = -1 /\ exitAt = "none"
    /\ inputDir = <<>> /\ outputDir = <<>> /\ useSRGB = TRUE
    /\ exposure = F32One
    /\ exrMade = FALSE
    /\ threeFrFiles = <<>> /\ idx = 0 /\ successCount = 0 /\ failCount = 0
    /\ callLog = <<>> /\ heldBuffers = 0
    /\ liveSessions = 0 /\ sessionsMade = 0
    /\ fpc = "off" /\ fin = <<>> /\ fout = <<>>
    /\ CallIdle

\* A plain run over any directory.
InitBatch ==
    /\ argv \in {<<ProgName, DirD>>, <<ProgName, DirD \o Slash>>}
    /\ dirEntries \in Directories
    /\ exrKind \in {"absent", "dir", "file"}
    /\ outFiles \in (IF exrKind = "dir"
                     THEN {NoFiles, StaleOutput :> "complete"} ELSE {NoFiles})

\* Any command line, over a small directory.
InitCli ==
    /\ argv \in {<<ProgName>>}
                \cup {<<ProgName, DirD>> \o t : t \in SeqsUpTo(WordPool, MaxArgs)}
    /\ dirEntries \in {<<>>, <<[name |-> <<"a", ".", "3", "f", "r">>,
                               type |-> "DT_REG"]>>}
    /\ exrKind = "absent"
    /\ outFiles = NoFiles

\* An input directory that is missing or is a file, or an empty word (as
\* from an unset shell variable) in a run started in a small root directory.
InitBadDir ==
    /\ argv \in {<<ProgName, bad>> \o t :
                    bad \in {NoneX, FileF}, t \in SeqsUpTo(WordPool, 1)}
                \cup {<<ProgName, <<>> >>}
    /\ dirEntries \in (IF Arg(argv, 1) = <<>>
                       THEN {<<>>, <<[name |-> <<"a", ".", "3", "f", "r">>,
                                      type |-> "DT_REG"]>>}
                       ELSE {<<>>})
    /\ exrKind = "absent"
    /\ outFiles = NoFiles

\* A plain run over a directory that holds one unusual entry.
InitOddNames ==
    /\ argv = <<ProgName, DirD>>
    /\ dirEntries \in {<<e>> : e \in OddPool}
    /\ exrKind = "dir"
    /\ outFiles = NoFiles

Init == InitCommon /\ (InitBatch \/ InitCli \/ InitBadDir \/ InitOddNames)

(***************************************************************************)
(* main, step by step.                                                     *)
(***************************************************************************)
Exit(code, at) == pc' = "exited" /\ exitCode' = code /\ exitAt' = at

callVars == <<cpc, inputFile, outputFile, trace, sizes, params, unpackGeom,
              image, fetched, releaseCount, pixels, ret, failStage, outBefore>>

\* The argc test and the option loop, which assigns the options word by
\* word up to the word it stops at.  An uncaught exception ends the process
\* by std::terminate and abort(): status 134 as the shell reports SIGABRT.
MainParse ==
    /\ pc = "start"
    /\ \E r \in {ParseArgs(variant, argv)} :
           \/ /\ r.status = "usage"
              /\ Exit(1, "usage")
              /\ inputDir' = IF variant = "general" /\ Argc(argv) >= 2
                             THEN Arg(argv, 1) ELSE inputDir
              /\ useSRGB' = r.useSRGB
              /\ exposure' = r.exposure
           \/ /\ r.status = "throw"
              /\ Exit(134, "abort")
              /\ inputDir' = Arg(argv, 1)
              /\ useSRGB' = r.useSRGB
              /\ exposure' = r.exposure
           \/ /\ r.status = "ok"
              /\ pc' = "checkInput"
              /\ inputDir' = Arg(argv, 1)
              /\ useSRGB' = r.useSRGB
              /\ exposure' = r.exposure
              /\ UNCHANGED <<exitCode, exitAt>>
    /\ UNCHANGED <<variant, argv, outputDir, dirEntries, exrKind, exrMade,
                   outFiles, threeFrFiles, idx, successCount, failCount,
                   callLog, heldBuffers,
                   liveSessions, sessionsMade>>
    /\ UNCHANGED callVars
    /\ UNCHANGED fnVars

\* The trailing separator and the test of the input directory.  On an
\* empty inputDir back() is undefined: a library built with assertions
\* aborts, any other goes on with the byte it read.
MainCheckInput ==
    /\ pc = "checkInput"
    /\ \/ /\ inputDir = <<>>
          /\ Exit(134, "abort")
          /\ UNCHANGED inputDir
       \/ \E b \in BackValues(inputDir) :
             /\ inputDir' = IF b # "/" /\ b # "\\" THEN inputDir \o Slash
                             ELSE inputDir
             /\ \/ /\ ~directoryExists(inputDir', exrKind)
                   /\ Exit(1, "input")
                \/ /\ directoryExists(inputDir', exrKind)
                   /\ pc' = "makeOutput"
                   /\ UNCHANGED <<exitCode, exitAt>>
    /\ UNCHANGED <<variant, argv, outputDir, useSRGB, exposure, dirEntries,
                   exrKind, exrMade, outFiles, threeFrFiles, idx, successCount,
                   failCount, callLog, heldBuffers,
                   liveSessions, sessionsMade>>
    /\ UNCHANGED callVars
    /\ UNCHANGED fnVars

\* The output directory: tested, created when the test fails.
MainMakeOutput ==
    /\ pc = "makeOutput"
    /\ LET out == inputDir \o NameEXR
       IN  \/ /\ directoryExists(out, exrKind)
              /\ outputDir' = WithSlash(out)
              /\ pc' = "discover"
              /\ UNCHANGED <<exitCode, exitAt, exrKind, exrMade>>
           \/ /\ ~directoryExists(out, exrKind)
              /\ \E denied \in BOOLEAN :
                    LET c == createDirectory(out, exrKind, denied)
                    IN  /\ exrKind' = IF c.made THEN "dir" ELSE exrKind
                        /\ exrMade' = c.made
                        /\ \/ /\ ~c.ok
                              /\ Exit(1, "mkdir")
                              /\ outputDir' = out
                           \/ /\ c.ok
                              /\ outputDir' = WithSlash(out)
                              /\ pc' = "discover"
                              /\ UNCHANGED <<exitCode, exitAt>>
    /\ UNCHANGED <<variant, argv, inputDir, useSRGB, exposure, dirEntries,
                   outFiles, threeFrFiles, idx, successCount, failCount,
                   callLog, heldBuffers,
                   liveSessions, sessionsMade>>
    /\ UNCHANGED callVars
    /\ UNCHANGED fnVars

\* opendir, the readdir loop, and the test for no candidate.
MainDiscover ==
    /\ pc = "discover"
    /\ \/ /\ Exit(1, "opendir")                        \* opendir failed
          /\ UNCHANGED <<threeFrFiles, idx>>
       \/ LET found == Discover(inputDir, Listing(dirEntries, exrKind), 1)
          IN  /\ threeFrFiles' = found
              /\ \/ /\ found = <<>>
                    /\ Exit(0, "empty")
                    /\ UNCHANGED idx
                 \/ /\ found # <<>>
                    /\ pc' = "loop"
                    /\ idx' = 1
                    /\ UNCHANGED <<exitCode, exitAt>>
    /\ UNCHANGED <<variant, argv, inputDir, outputDir, useSRGB, exposure,
                   dirEntries, exrKind, exrMade, outFiles, successCount,
                   failCount, callLog, heldBuffers,
                   liveSessions, sessionsMade>>
    /\ UNCHANGED callVars
    /\ UNCHANGED fnVars

LoopState ==
    [idx |-> idx, n |-> Len(threeFrFiles), success |-> successCount,
     fail |-> failCount]

\* The loop body up to the call of convert3frToExr.
MainBeginConvert ==
    /\ pc = "loop" /\ cpc = "idle"
    /\ ~LoopDone(LoopState)
    /\ inputFile' = threeFrFiles[idx]
    /\ outputFile' = OutputPathOf(outputDir, threeFrFiles[idx])
    /\ cpc' = StageOrder(variant)[1]
    /\ outBefore' = outFiles
    /\ UNCHANGED <<trace, sizes, params, unpackGeom, image, fetched,
                   releaseCount, pixels, ret, failStage>>
    /\ UNCHANGED mainVars
    /\ UNCHANGED <<outFiles, heldBuffers, liveSessions, sessionsMade>>
    /\ UNCHANGED fnVars

\* The loop body after the call returned.
MainEndConvert ==
    /\ pc = "loop" /\ cpc = "returned"
    /\ LET st == LoopStep(LoopState, ret)
       IN  /\ idx' = st.idx
           /\ successCount' = st.success
           /\ failCount' = st.fail
    /\ callLog' = Append(callLog, [input |-> inputFile, output |-> outputFile,
                                   result |-> ret])
    /\ cpc' = "idle" /\ inputFile' = <<>> /\ outputFile' = <<>>
    /\ trace' = <<>> /\ sizes' = NoSizes /\ params' = NoParams
    /\ unpackGeom' = NoGeom /\ image' = NoImage /\ fetched' = FALSE
    /\ releaseCount' = 0 /\ pixels' = <<>> /\ ret' = FALSE
    /\ failStage' = "none" /\ outBefore' = NoFiles
    /\ UNCHANGED <<variant, argv, pc, exitCode, exitAt, inputDir, outputDir,
                   useSRGB, exposure, dirEntries, exrKind, exrMade,
                   threeFrFiles, outFiles, heldBuffers,
                   liveSessions, sessionsMade>>
    /\ UNCHANGED fnVars

\* The summary and main's return.
MainSummary ==
    /\ pc = "loop" /\ cpc = "idle"
    /\ LoopDone(LoopState)
    /\ Exit(ExitStatus(failCount), "summary")
    /\ UNCHANGED <<variant, argv, inputDir, outputDir, useSRGB, exposure,
                   dirEntries, exrKind, exrMade, outFiles, threeFrFiles, idx,
                   successCount, failCount, callLog, heldBuffers,
                   liveSessions, sessionsMade>>
    /\ UNCHANGED callVars
    /\ UNCHANGED fnVars

(***************************************************************************)
(* convert3frToExr, stage by stage.                                        *)
(***************************************************************************)
\* A return of the call: its value, and the releases of the path taken.
Return(value, stage) ==
    /\ cpc' = "returned"
    /\ ret' = value
    /\ failStage' = stage
    /\ releaseCount' = releaseCount + ReleaseCalls(variant, stage)
    /\ heldBuffers' = heldBuffers - ReleaseCalls(variant, stage)
    /\ liveSessions' = liveSessions + Constructed(stage) - DestroyedAtReturn
    /\ sessionsMade' = sessionsMade + Constructed(stage)

Advance(stage) ==
    /\ cpc' = NextStage(variant, stage)
    /\ liveSessions' = liveSessions + Constructed(stage)
    /\ sessionsMade' = sessionsMade + Constructed(stage)
    /\ UNCHANGED <<ret, failStage, releaseCount, heldBuffers>>

\* processor.open_file
ConvOpen ==
    /\ cpc = "open"
    /\ trace' = Append(trace, "open")
    /\ \/ /\ Return(FALSE, "open")
          /\ UNCHANGED sizes
       \/ /\ \E s \in SensorPool : sizes' = s
          /\ Advance("open")
    /\ UNCHANGED <<inputFile, outputFile, params, unpackGeom, image, fetched,
                   pixels, outBefore, outFiles>>
    /\ UNCHANGED mainVars
    /\ UNCHANGED fnVars

\* processor.unpack
ConvUnpack ==
    /\ cpc = "unpack"
    /\ trace' = Append(trace, "unpack")
    /\ \/ /\ Return(FALSE, "unpack")
          /\ UNCHANGED unpackGeom
       \/ /\ unpackGeom' = [width |-> sizes.width, height |-> sizes.height]
          /\ Advance("unpack")
    /\ UNCHANGED <<inputFile, outputFile, sizes, params, image, fetched,
                   pixels, outBefore, outFiles>>
    /\ UNCHANGED mainVars
    /\ UNCHANGED fnVars

\* the writes to processor.imgdata.sizes
ConvGeometry ==
    /\ cpc = "geometry"
    /\ sizes' = GeometryOverride(sizes)
    /\ trace' = Append(trace, "geometry")
    /\ Advance("geometry")
    /\ UNCHANGED <<inputFile, outputFile, params, unpackGeom, image, fetched,
                   pixels, outBefore, outFiles>>
    /\ UNCHANGED mainVars
    /\ UNCHANGED fnVars

\* the writes to processor.imgdata.params
ConvParams ==
    /\ cpc = "params"
    /\ params' = ConfigOf(variant)
    /\ trace' = Append(trace, "params")
    /\ Advance("params")
    /\ UNCHANGED <<inputFile, outputFile, sizes, unpackGeom, image, fetched,
                   pixels, outBefore, outFiles>>
    /\ UNCHANGED mainVars
    /\ UNCHANGED fnVars

\* processor.dcraw_process
ConvProcess ==
    /\ cpc = "process"
    /\ trace' = Append(trace, "process")
    /\ \/ Return(FALSE, "process")
       \/ Advance("process")
    /\ UNCHANGED <<inputFile, outputFile, sizes, params, unpackGeom, image,
                   fetched, pixels, outBefore, outFiles>>
    /\ UNCHANGED mainVars
    /\ UNCHANGED fnVars

\* processor.dcraw_make_mem_image: null, or a buffer.  The library sizes the
\* buffer by the geometry it took at unpack or by the session's sizes as
\* they are now.
ConvFetch ==
    /\ cpc = "fetch"
    /\ trace' = Append(trace, "fetch")
    /\ \/ /\ Return(FALSE, "fetch")
          /\ UNCHANGED <<image, fetched>>
       \/ /\ \E dims \in {unpackGeom, [width |-> sizes.width,
                                       height |-> sizes.height]},
                colors \in {1, 3}, bits \in {8, 16} :
                image' = [width |-> dims.width, height |-> dims.height,
                          colors |-> colors, bits |-> bits,
                          data |-> SampleData(bits,
                                       dims.width * dims.height * colors)]
          /\ fetched' = TRUE
          /\ cpc' = NextStage(variant, "fetch")
          /\ heldBuffers' = heldBuffers + 1
          /\ UNCHANGED <<ret, failStage, releaseCount, liveSessions,
                         sessionsMade>>
    /\ UNCHANGED <<inputFile, outputFile, sizes, params, unpackGeom, pixels,
                   outBefore, outFiles>>
    /\ UNCHANGED mainVars
    /\ UNCHANGED fnVars

\* RgbaOutputFile file(outputPath, ...): opening fails when the output
\* directory is not a directory; otherwise any of the outcomes.
ConvCtor ==
    /\ cpc = "ctor"
    /\ trace' = Append(trace, "ctor")
    /\ \E outcome \in (IF directoryExists(outputDir, exrKind)
                       THEN {"ok", "openfail", "headerfail"}
                       ELSE {"openfail"}) :
          /\ outFiles' = CtorEffect(outFiles, outputFile, outcome)
          /\ \/ /\ outcome = "ok"
                /\ Advance("ctor")
             \/ /\ outcome # "ok"
                /\ Return(FALSE, "ctor")
    /\ UNCHANGED <<inputFile, outputFile, sizes, params, unpackGeom, image,
                   fetched, pixels, outBefore>>
    /\ UNCHANGED mainVars
    /\ UNCHANGED fnVars

\* The allocation of the pixel array and the pixel loop, or the rejection
\* of the buffer's format.  The allocation, the first statement after the
\* constructor, is inside the try block: when it throws, the catch handler
\* releases the buffer and the call returns false with no pixel computed.
ConvPixels ==
    /\ cpc = "pixels"
    /\ \/ /\ FormatAccepted(variant, image)
          /\ pixels' \in FillPixels(variant, image, useSRGB, exposure)
          /\ Advance("pixels")
       \/ /\ ~FormatAccepted(variant, image)
          /\ Return(FALSE, "pixels")
          /\ UNCHANGED pixels
       \/ /\ Return(FALSE, "pixels")
          /\ UNCHANGED pixels
    /\ UNCHANGED <<inputFile, outputFile, trace, sizes, params, unpackGeom,
                   image, fetched, outBefore, outFiles>>
    /\ UNCHANGED mainVars
    /\ UNCHANGED fnVars

\* setFrameBuffer, writePixels, the end of the try block and the return.
ConvWrite ==
    /\ cpc = "write"
    /\ trace' = Append(trace, "write")
    /\ \E ok \in BOOLEAN :
          /\ outFiles' = WriteEffect(outFiles, outputFile, ok)
          /\ Return(ok, IF ok THEN "none" ELSE "write")
    /\ UNCHANGED <<inputFile, outputFile, sizes, params, unpackGeom, image,
                   fetched, pixels, outBefore>>
    /\ UNCHANGED mainVars
    /\ UNCHANGED fnVars

Next ==
    \/ MainParse
    \/ MainCheckInput
    \/ MainMakeOutput
    \/ MainDiscover
    \/ MainBeginConvert
    \/ MainEndConvert
    \/ MainSummary
    \/ ConvOpen
    \/ ConvUnpack
    \/ ConvGeometry
    \/ ConvParams
    \/ ConvProcess
    \/ ConvFetch
    \/ ConvCtor
    \/ ConvPixels
    \/ ConvWrite

Spec == Init /\ [][Next]_vars

(***************************************************************************)
(* The transfer functions alone: each run takes one input and applies the  *)
(* functions to it.  A curve run linearizes a value and encodes the result *)
(* again; a tone run normalizes two samples of a buffer as the pixel loop  *)
(* does under --linear and passes them through the compression stage.      *)
(***************************************************************************)
GridSteps == 400    \* the curve inputs are the multiples of 1/GridSteps

\* The encoded values given to the curves: a grid over [0, 1], the values
\* around the knee of either curve, and values outside [0, 1].
CurveInputs ==
    {HiDiv(i, GridSteps) : i \in 0..GridSteps}
        \cup {4044993, 4044994, 4044999, 4045000, 4045001,
               313079, 313080, 313081, 1, HiScale - 1}
        \cup {0 - HiScale, -1, HiScale + 1, 2 * HiScale}

\* The words given to --exposure in the tone runs
ExposureWords ==
    {<<"1">>, <<"1", ".", "5">>, <<"2">>, <<"1", "0", "0">>, <<"1", "e", "8">>}

\* The exposure multipliers, as std::stof returns them.
Exposures == {Stof(w).value : w \in ExposureWords}

\* The samples of a buffer of the given depth.
SamplePool(bits) ==
    IF bits = 16 THEN {0, 1, 2650, 32768, 65534, 65535}
    ELSE {0, 10, 128, 254, 255}

\* The inputs of a tone run: a depth, two samples of that depth in
\* ascending order, and a multiplier.
ToneInputs ==
    UNION {{[kind |-> "tone", bits |-> b, s1 |-> p[1], s2 |-> p[2], m |-> e] :
               p \in {q \in SamplePool(b) \X SamplePool(b) : q[1] <= q[2]},
               e \in Exposures} : b \in {8, 16}}

InitFn ==
    /\ variant = "general" /\ argv = <<ProgName>>
    /\ pc = "off" /\ exitCode = -1 /\ exitAt = "none"
    /\ inputDir = <<>> /\ outputDir = <<>> /\ useSRGB = TRUE
    /\ exposure = F32One
    /\ dirEntries = <<>> /\ exrKind = "absent" /\ exrMade = FALSE
    /\ outFiles = NoFiles
    /\ threeFrFiles = <<>> /\ idx = 0 /\ successCount = 0 /\ failCount = 0
    /\ callLog = <<>> /\ heldBuffers = 0
    /\ liveSessions = 0 /\ sessionsMade = 0
    /\ CallIdle
    /\ fpc = "start"
    /\ fin \in {[kind |-> "curve", x |-> v] : v \in CurveInputs} \cup ToneInputs
    /\ fout = <<>>

\* applySRGBInverse on the input
FnLinearize ==
    /\ fpc = "start" /\ fin.kind = "curve"
    /\ fout' = [lin |-> applySRGBInverseHi(fin.x)]
    /\ fpc' = "linearized"
    /\ UNCHANGED fin
    /\ UNCHANGED mainVars
    /\ UNCHANGED callVars
    /\ UNCHANGED <<outFiles, heldBuffers, liveSessions, sessionsMade>>

\* applySRGBCurve on the linearized value
FnEncode ==
    /\ fpc = "linearized"
    /\ fout' = [lin |-> fout.lin, enc |-> applySRGBCurve(fout.lin)]
    /\ fpc' = "encoded"
    /\ UNCHANGED fin
    /\ UNCHANGED mainVars
    /\ UNCHANGED callVars
    /\ UNCHANGED <<outFiles, heldBuffers, liveSessions, sessionsMade>>

\* normalization and, as under --linear, the compression stage alone on the
\* two samples
FnCompress ==
    /\ fpc = "start" /\ fin.kind = "tone"
    /\ LET x1 == Normalize(fin.s1, fin.bits)
           x2 == Normalize(fin.s2, fin.bits)
       IN  \E y1 \in Transfer(x1, FALSE, fin.m) :
           \E y2 \in Transfer(x2, FALSE, fin.m) :
              fout' = [x1 |-> x1, x2 |-> x2, y1 |-> y1, y2 |-> y2]
    /\ fpc' = "compressed"
    /\ UNCHANGED fin
    /\ UNCHANGED mainVars
    /\ UNCHANGED callVars
    /\ UNCHANGED <<outFiles, heldBuffers, liveSessions, sessionsMade>>

NextFn ==
    \/ FnLinearize
    \/ FnEncode
    \/ FnCompress

FnSpec == InitFn /\ [][NextFn]_vars

(***************************************************************************)
(* Properties.                                                             *)
(***************************************************************************)
\* the inputs of the calls made so far, in call order
CalledInputs == [i \in 1..Len(callLog) |-> callLog[i].input]

\* the number of calls so far that returned r
CallsReturning(r) == Cardinality({i \in 1..Len(callLog) : callLog[i].result = r})

\* the 1-based position of the first event e in the current call's trace, 0
\* when there is none
PosInTrace(e) ==
    IF \E i \in 1..Len(trace) : trace[i] = e
    THEN CHOOSE i \in 1..Len(trace) :
            trace[i] = e /\ \A j \in 1..(i - 1) : trace[j] # e
    ELSE 0

\* C1: failure isolation.  While the loop runs, the calls made so far are
\* the first candidates in discovery order, one call each, and the call in
\* progress is for the next candidate; once the loop is over, every
\* discovered candidate was converted exactly once, in discovery order,
\* whatever the results of the calls before it.
C1_FailureIsolation ==
    /\ pc = "loop" =>
          /\ Len(callLog) < idx
          /\ CalledInputs = SubSeq(threeFrFiles, 1, Len(callLog))
          /\ cpc # "idle" =>
                /\ Len(callLog) = idx - 1
                /\ idx <= Len(threeFrFiles)
                /\ inputFile = threeFrFiles[idx]
    /\ exitAt = "summary" => CalledInputs = threeFrFiles

\* C1 witness: the run is over, its first conversion failed and a later
\* candidate was converted all the same.
C1_Witness ==
    /\ exitAt = "summary"
    /\ Len(callLog) >= 2
    /\ callLog[1].result = FALSE
    /\ callLog[2].result = TRUE

\* the output path is as the call found it
OutputUntouched ==
    /\ (outputFile \in DOMAIN outFiles) = (outputFile \in DOMAIN outBefore)
    /\ outputFile \in DOMAIN outFiles =>
          outFiles[outputFile] = outBefore[outputFile]

\* C2: a call that fails at the encode stage (after the buffer was fetched:
\* the encode library threw, or the buffer's format was rejected) leaves no
\* file at the output path: the path is as the call found it.
C2_NoArtifactOnEncodeFailure ==
    (cpc = "returned" /\ ~ret /\ fetched
        /\ failStage \in {"ctor", "pixels", "write"}) => OutputUntouched

\* C3: a call that fails at open, unpack, process or fetch returns failure
\* without having opened the output file, and the files of the output
\* directory are as the call found them.
C3_DecodeFailureLeavesOutputAlone ==
    (cpc = "returned" /\ failStage \in {"open", "unpack", "process", "fetch"}) =>
        /\ ret = FALSE
        /\ PosInTrace("ctor") = 0
        /\ outFiles = outBefore

\* C3 witness: a call failed at the fetch of the processed buffer, in a run
\* whose output directory holds a file.
C3_Witness ==
    /\ cpc = "returned"
    /\ failStage = "fetch"
    /\ PosInTrace("process") > 0
    /\ DOMAIN outFiles # {}

\* C4: a call that fetched the buffer has released it exactly once when it
\* returns, on every exit path; a call that fetched none releases none; and
\* no buffer is held outside a call or when a call starts.
C4_BufferReleasedOnce ==
    /\ releaseCount <= 1
    /\ heldBuffers \in {0, 1}
    /\ cpc = "returned" =>
          /\ releaseCount = (IF fetched THEN 1 ELSE 0)
          /\ heldBuffers = 0
    /\ cpc \in {"idle", "open"} => heldBuffers = 0

\* C4 witness: the encode library threw in the second call of a run, and
\* the call returned.
C4_Witness ==
    /\ cpc = "returned"
    /\ fetched
    /\ failStage = "write"
    /\ Len(callLog) >= 1

\* C5: in every call, of either variant, the geometry override is applied
\* after open succeeded and before unpack is called.
C5_OverrideBeforeUnpack ==
    /\ PosInTrace("unpack") > 0 =>
          /\ PosInTrace("geometry") > 0
          /\ PosInTrace("geometry") < PosInTrace("unpack")
    /\ PosInTrace("geometry") > 0 =>
          /\ PosInTrace("open") > 0
          /\ PosInTrace("open") < PosInTrace("geometry")

\* C6: for a run that got to the test for candidates, the exit status is
\* non-zero exactly when some conversion returned failure; with no
\* candidate it is 0 and no conversion was invoked.
C6_ExitStatus ==
    /\ exitAt \in {"empty", "summary"} =>
          /\ pc = "exited"
          /\ (exitCode # 0) <=> (CallsReturning(FALSE) > 0)
          /\ exitCode \in {0, 1}
    /\ exitAt = "empty" => (threeFrFiles = <<>> /\ callLog = <<>> /\ exitCode = 0)
    /\ (exitAt = "summary" /\ CallsReturning(FALSE) = 0) => exitCode = 0

\* C6 witness: a run with a successful and a failed conversion ended with
\* status 1.
C6_Witness ==
    /\ exitAt = "summary"
    /\ exitCode = 1
    /\ CallsReturning(TRUE) >= 1
    /\ CallsReturning(FALSE) >= 1

\* an entry is a candidate: a regular file or one of unknown type whose
\* name ends with .3fr in any mix of cases
IsCandidate(e) ==
    LET n == Len(e.name)
    IN  /\ e.type \in {"DT_REG", "DT_UNKNOWN"}
        /\ n >= 4
        /\ e.name[n - 3] = "."
        /\ e.name[n - 2] = "3"
        /\ e.name[n - 1] \in {"f", "F"}
        /\ e.name[n] \in {"r", "R"}

\* the paths of the candidates among what readdir yields, in that order
CandidatePaths ==
    LET listing == Listing(dirEntries, exrKind)
        keep == SelectSeq(listing, IsCandidate)
    IN  [i \in 1..Len(keep) |-> inputDir \o keep[i].name]

\* C7: the run converts exactly the directory entries that are candidates,
\* and the counters count the calls: at every moment of the loop
\* successCount and failCount are the numbers of calls that returned success
\* and failure, and when the loop has ended their sum is the number of
\* discovered candidates.
C7_ConvertsCandidatesAndCounts ==
    /\ pc = "loop" => threeFrFiles = CandidatePaths
    /\ successCount = CallsReturning(TRUE)
    /\ failCount = CallsReturning(FALSE)
    /\ exitAt \in {"empty", "summary"} =>
          /\ CalledInputs = CandidatePaths
          /\ successCount + failCount = Len(threeFrFiles)
          /\ Len(threeFrFiles) = Len(CandidatePaths)

\* C7 witness: a run over a directory that holds an entry that is no
\* candidate beside a candidate ended with the conversion counted.
C7_Witness ==
    /\ exitAt = "summary"
    /\ successCount >= 1
    /\ Len(dirEntries) > Len(callLog)

\* C8: a call that returns success has a buffer of the session's raw width
\* and height.
C8_SuccessMeansFullSensorBuffer ==
    (cpc = "returned" /\ ret) =>
        /\ image.width = sizes.raw_width
        /\ image.height = sizes.raw_height

\* the values the claim allows every colour channel of the 1-based pixel p
\* of a grayscale buffer (std::pow may return either float next to the power)
GrayExpected(p) ==
    LET v == Normalize(image.data[(p - 1) * image.colors + 1], image.bits)
    IN  IF variant = "general"
        THEN {HalfOf(t) : t \in Transfer(v, useSRGB, exposure)}
        ELSE {HalfOf(v)}

\* C9: a call whose buffer has fewer than 3 channels, and in which the
\* encode library did not throw, succeeds, and every pixel it wrote has
\* R = G = B = the transformed sample and alpha 1.0.
C9_GrayscaleConverted ==
    (cpc = "returned" /\ fetched /\ image.colors < 3
        /\ failStage \notin {"ctor", "write"}
        /\ ~(failStage = "pixels" /\ FormatAccepted(variant, image))) =>
        /\ ret
        /\ Len(pixels) = image.width * image.height
        /\ \A p \in 1..Len(pixels) :
              /\ pixels[p].r \in GrayExpected(p)
              /\ pixels[p].g = pixels[p].r
              /\ pixels[p].b = pixels[p].r
              /\ pixels[p].a = HalfOne

\* a word is a number: a numeral that has a float value
IsNumberWord(w) == Stof(w).status = "ok"

RECURSIVE OptionsWellFormed(_, _)
\* the words from index i on are --linear and --exposure <number> only
OptionsWellFormed(av, i) ==
    IF i >= Argc(av) THEN TRUE
    ELSE IF Arg(av, i) = OptLinear THEN OptionsWellFormed(av, i + 1)
    ELSE IF Arg(av, i) = OptExposure
         THEN /\ i + 1 < Argc(av)
              /\ IsNumberWord(Arg(av, i + 1))
              /\ OptionsWellFormed(av, i + 2)
    ELSE FALSE

\* the command line has a bad or missing argument
BadCommandLine ==
    \/ Argc(argv) < 2
    \/ variant = "full" /\ Argc(argv) > 2
    \/ variant = "general" /\ ~OptionsWellFormed(argv, 2)

\* C10: with a bad or missing argument the process exits with status 1 at
\* the usage error and nothing else runs: no directory is created and no
\* conversion is invoked.
C10_BadArgumentsAreUsageErrors ==
    (BadCommandLine /\ pc # "start") =>
        /\ pc = "exited"
        /\ exitAt = "usage"
        /\ exitCode = 1
        /\ ~exrMade
        /\ callLog = <<>>
        /\ cpc = "idle"

\* --exposure is the last word of the command line
ExposureIsLast ==
    /\ Argc(argv) >= 3
    /\ Arg(argv, Argc(argv) - 1) = OptExposure

\* C11: in the general variant, when --exposure is the last argument the
\* process exits with status 1 at the usage error, before the input
\* directory is checked (inputDir is still the word given), before the output
\* directory is created and before any file is discovered or converted,
\* whatever words precede it.
C11_MissingExposureValue ==
    (variant = "general" /\ ExposureIsLast /\ pc # "start") =>
        /\ pc = "exited"
        /\ exitCode = 1
        /\ exitAt = "usage"
        /\ inputDir = Arg(argv, 1)
        /\ ~exrMade
        /\ threeFrFiles = <<>>
        /\ callLog = <<>>
        /\ cpc = "idle"

\* the word given as the input directory is no directory
InputPathBad ==
    /\ Argc(argv) >= 2
    /\ StatKind(Arg(argv, 1), exrKind) # "dir"

\* C12: if the input directory path does not exist or is not a directory,
\* the run, once past the test of the input directory, has exited with a
\* non-zero status, has created no directory and has discovered and
\* converted nothing.
C12_BadInputDirFailsFast ==
    (InputPathBad /\ pc \notin {"start", "checkInput"}) =>
        /\ pc = "exited"
        /\ exitCode > 0
        /\ ~exrMade
        /\ exrKind = "absent"
        /\ threeFrFiles = <<>>
        /\ callLog = <<>>
        /\ cpc = "idle"

\* the run got past the output-directory step
GotPastOutputStep ==
    \/ pc \in {"discover", "loop"}
    \/ exitAt \in {"opendir", "empty", "summary"}

\* C13: a run that got past the output-directory step works with the output
\* directory <inputDir>EXR/ (inputDir ending with its separator), which
\* exists by then: the run created it when it was absent, and went on when
\* it was there already (mkdir reporting EEXIST included); a run that
\* stopped at the creation did so with status 1, on a failure other than
\* "already exists", having created, discovered and converted nothing.
C13_OutputDirectory ==
    /\ GotPastOutputStep =>
          /\ outputDir = inputDir \o NameEXR \o Slash
          /\ exrKind # "absent"
          /\ exrMade => exrKind = "dir"
    /\ exitAt = "mkdir" =>
          /\ pc = "exited"
          /\ exitCode = 1
          /\ outputDir = inputDir \o NameEXR
          /\ exrKind = "absent"
          /\ ~exrMade
          /\ threeFrFiles = <<>>
          /\ callLog = <<>>
          /\ cpc = "idle"

\* C13 witness: the run created the output directory and is converting.
C13_Witness ==
    /\ pc = "loop"
    /\ exrMade
    /\ exrKind = "dir"
    /\ cpc = "ctor"

\* the names of the candidates among what readdir yields, in that order
CandidateNames ==
    LET keep == SelectSeq(Listing(dirEntries, exrKind), IsCandidate)
    IN  [i \in 1..Len(keep) |-> keep[i].name]

\* <inputDir>/EXR/<basename>.exr for the candidate of the given file name:
\* the name with its last 4 characters removed
ExpectedOutput(name) ==
    inputDir \o NameEXR \o Slash \o SubSeq(name, 1, Len(name) - 4) \o ExtExr

\* C14: the output path passed to every call of the converter, the calls
\* made and the call in progress, is <inputDir>/EXR/<basename>.exr, where
\* <basename> is the candidate's file name without its final 4-character
\* extension, whatever characters the name contains.
C14_OutputPath ==
    /\ \A i \in 1..Len(callLog) :
          /\ i <= Len(CandidateNames)
          /\ callLog[i].input = inputDir \o CandidateNames[i]
          /\ callLog[i].output = ExpectedOutput(CandidateNames[i])
    /\ cpc # "idle" =>
          /\ Len(callLog) < Len(CandidateNames)
          /\ outputFile = ExpectedOutput(CandidateNames[Len(callLog) + 1])

\* C15: once the directory was read, an entry is among the candidates if
\* and only if its type is regular file or unknown and its name ends with
\* .3fr in any mix of cases; every candidate path is the input directory
\* followed by the name of an entry of that directory (nothing from a
\* subdirectory), and there are as many candidates as qualifying entries.
C15_Discovery ==
    (pc = "loop" \/ exitAt \in {"empty", "summary"}) =>
        LET listing == Listing(dirEntries, exrKind)
        IN  /\ \A i \in 1..Len(listing) :
                  IsCandidate(listing[i]) <=>
                      \E j \in 1..Len(threeFrFiles) :
                          threeFrFiles[j] = inputDir \o listing[i].name
            /\ \A j \in 1..Len(threeFrFiles) :
                  \E i \in 1..Len(listing) :
                      threeFrFiles[j] = inputDir \o listing[i].name
            /\ Len(threeFrFiles) =
                  Cardinality({i \in 1..Len(listing) : IsCandidate(listing[i])})

\* C15 witness: the directory holds a subdirectory named like a raw file
\* beside a file of unknown type, and only the file is a candidate.
C15_Witness ==
    /\ pc = "loop"
    /\ Len(threeFrFiles) = 1
    /\ \E i, j \in 1..Len(dirEntries) :
          /\ dirEntries[i].type = "DT_DIR"
          /\ is3frFile(dirEntries[i].name)
          /\ dirEntries[j].type = "DT_UNKNOWN"
          /\ threeFrFiles[1] = inputDir \o dirEntries[j].name

\* --linear is among the option words of the command line
LinearGiven == \E i \in 2..(Argc(argv) - 1) : Arg(argv, i) = OptLinear

\* the values the claim allows a colour channel for a sample of the buffer
ChannelExpected(sample) ==
    LET n == Normalize(sample, image.bits)
    IN  {HalfOf(IF F32Eq(exposure, F32One) THEN lin
                ELSE simpleToneMap(lin, exposure)) :
            lin \in (IF LinearGiven THEN {n} ELSE applySRGBInverse(n))}

\* C16: in the general variant, when the pixel loop has run, every pixel of
\* the array, for 8-bit and 16-bit buffers alike, has in each colour channel
\* the normalized sample of that channel (of the one channel, for a
\* grayscale buffer), linearized if and only if --linear was not given and
\* then compressed if and only if the exposure multiplier is not 1.0, and
\* has alpha 1.0.
C16_TransferStages ==
    (variant = "general" /\ cpc = "write") =>
        /\ Len(pixels) = image.width * image.height
        /\ \A p \in 1..Len(pixels) :
              LET at == (p - 1) * image.colors
                  ch(k) == image.data[at + (IF image.colors >= 3 THEN k ELSE 1)]
              IN  /\ pixels[p].r \in ChannelExpected(ch(1))
                  /\ pixels[p].g \in ChannelExpected(ch(2))
                  /\ pixels[p].b \in ChannelExpected(ch(3))
                  /\ pixels[p].a = HalfOne

\* C16 witness: a call of the general variant, run without --linear and
\* with --exposure 2, has filled the pixels of an 8-bit colour buffer.
C16_Witness ==
    /\ variant = "general"
    /\ cpc = "write"
    /\ ~LinearGiven
    /\ exposure = F32OfInt(2)
    /\ image.bits = 8
    /\ image.colors = 3
    /\ Len(pixels) = 4

\* the 1-based position of the last event e in the current call's trace, 0
\* when there is none
LastPosInTrace(e) ==
    IF \E i \in 1..Len(trace) : trace[i] = e
    THEN CHOOSE i \in 1..Len(trace) :
            trace[i] = e /\ \A j \in (i + 1)..Len(trace) : trace[j] # e
    ELSE 0

\* C19: in every call, of either variant, every write to the session's
\* processing parameters and every write to its geometry fields comes after
\* open and, once unpack has been called, lies before that call: no write to
\* the session follows unpack.
C19_SessionWrittenOnlyBeforeUnpack ==
    \A e \in {"params", "geometry"} :
        PosInTrace(e) > 0 =>
            /\ PosInTrace("open") > 0
            /\ PosInTrace("open") < PosInTrace(e)
            /\ PosInTrace("unpack") > 0 =>
                  LastPosInTrace(e) < PosInTrace("unpack")

\* the session's geometry is the overridden one
GeometryIsFullSensor ==
    /\ sizes.width = sizes.raw_width
    /\ sizes.height = sizes.raw_height
    /\ sizes.top_margin = 0
    /\ sizes.left_margin = 0
    /\ sizes.iwidth = sizes.raw_width
    /\ sizes.iheight = sizes.raw_height

\* C20: every call of convert constructs exactly one decode session of its
\* own and the session is destroyed when the call returns, on every path:
\* no session exists outside a call, one exists inside, and as many were
\* constructed as calls were made.  A session on which the processing stage
\* was called had the geometry override applied before, in the same call.
C20_SessionPerCall ==
    /\ liveSessions \in {0, 1}
    /\ cpc \in {"idle", "open", "returned"} => liveSessions = 0
    /\ cpc \notin {"idle", "open", "returned"} => liveSessions = 1
    /\ sessionsMade =
          Len(callLog) + (IF cpc \in {"idle", "open"} THEN 0 ELSE 1)
    /\ PosInTrace("process") > 0 =>
          /\ PosInTrace("geometry") > 0
          /\ PosInTrace("geometry") < PosInTrace("process")
          /\ GeometryIsFullSensor

\* C20 witness: the second call of a run, on a file whose visible area is
\* smaller than the sensor, has reached the processing stage after the
\* first call failed there.
C20_Witness ==
    /\ Len(callLog) = 1
    /\ callLog[1].result = FALSE
    /\ sessionsMade = 2
    /\ liveSessions = 1
    /\ cpc = "fetch"
    /\ PosInTrace("process") > 0
    /\ unpackGeom.width < sizes.raw_width

\* C17: in a tone run, with a multiplier above 1 the compressed value of
\* either sample lies in [0, 1), below 1.0, and the values are in the order
\* of the samples (the first sample is not above the second); with the
\* neutral multiplier 1.0 the stage is skipped and each normalized sample
\* is passed through unchanged.
C17_CompressRangeAndOrder ==
    fpc = "compressed" =>
        /\ F32Less(F32One, fin.m) =>
              /\ ~F32Less(fout.y1, F32Zero) /\ F32Less(fout.y1, F32One)
              /\ ~F32Less(fout.y2, F32Zero) /\ F32Less(fout.y2, F32One)
              /\ ~F32Less(fout.y2, fout.y1)
        /\ fin.m = F32One => (fout.y1 = fout.x1 /\ fout.y2 = fout.x2)

\* C18: in a curve run, encoding the linearized value gives back the input,
\* clamped to [0, 1], to within 1e-4; this holds at the knee of either
\* curve too, and inputs outside [0, 1] give the values of the nearer end
\* of the interval: every intermediate and final value lies in [0, 1].
C18_CurveRoundTrip ==
    fpc = "encoded" =>
        LET c == HiClamp01(fin.x)
            tol == HiScale \div 10000
        IN  /\ fout.enc - c <= tol
            /\ c - fout.enc <= tol
            /\ fout.lin >= 0 /\ fout.lin <= HiScale
            /\ fout.enc >= 0 /\ fout.enc <= HiScale
            /\ fin.x <= 0 => (fout.lin = 0 /\ fout.enc = 0)
            /\ fin.x >= HiScale => fout.lin = applySRGBInverseHi(HiScale)

\* C18 witness: the input at the knee of the inverse curve, 0.04045, whose
\* linearized value 0.0031308 is the knee of the encode curve, was
\* linearized and encoded.
C18_Witness ==
    /\ fpc = "encoded"
    /\ fin.x = 4045000
    /\ fout.lin = 313080

\* the output paths of the calls made that a complete file now stands at
WrittenOutputs ==
    {callLog[i].output : i \in {k \in 1..Len(callLog) : callLog[k].result}}
        \cap {q \in DOMAIN outFiles : outFiles[q] = "complete"}

\* C21: the calls of one run, the calls made and the call in progress, are
\* given pairwise distinct output paths for their distinct candidates (the
\* candidates a.3fr and a.3FR included), and a run that ended with every
\* conversion successful has written as many files to the output directory
\* as it counted successes.
C21_DistinctOutputs ==
    /\ \A i, j \in 1..Len(callLog) :
          callLog[i].input # callLog[j].input =>
              callLog[i].output # callLog[j].output
    /\ cpc # "idle" =>
          \A i \in 1..Len(callLog) :
              callLog[i].input # inputFile => callLog[i].output # outputFile
    /\ (exitAt = "summary" /\ failCount = 0) =>
          Cardinality(WrittenOutputs) = successCount

\* C22: a run that got past the output-directory step has <inputDir>EXR
\* present as a directory; a run that finds a non-directory entry named EXR
\* in the input directory never reaches discovery or the conversion loop,
\* calls the converter for no file, and ends with exit status 1.
C22_OutputIsDirectory ==
    /\ GotPastOutputStep => directoryExists(inputDir \o NameEXR, exrKind)
    /\ exrKind = "file" =>
          /\ pc \notin {"discover", "loop"}
          /\ callLog = <<>>
          /\ cpc = "idle"
          /\ pc = "exited" => exitCode = 1

====
